---- MODULE Spec2Model ----
(***************************************************************************)
(* Session lifecycle and response normalisation of the AgentCore tool      *)
(* clients: CodeInterpreter (tools/code-interpreter/client.ts), Browser     *)
(* (tools/browser) and PlaywrightBrowser                                   *)
(* (tools/browser/integrations/playwright/client.ts).                      *)
(*                                                                         *)
(* One client instance is modelled.  Every public method is an async       *)
(* function: it runs synchronously up to its first await, and each         *)
(* continuation after an await is a separate step, so calls that the       *)
(* caller does not await interleave exactly at the awaits of the code.     *)
(* The calls of a behaviour are calls of startSession, of stopSession and  *)
(* of one further operation of the class, fixed in the initial state.      *)
(* Spec lets the calls overlap and exercises the operations that differ in *)
(* how they use the session slot; SpecAwaited has the caller await every   *)
(* call, as the usage rule of the clients asks, and exercises every        *)
(* operation.                                                              *)
(*                                                                         *)
(* A JavaScript string is a sequence of text fragments (TLA+ strings);     *)
(* concatenation is \o and the empty string is << >>.  Fragments are       *)
(* chosen so that no fragment is a concatenation of others.                *)
(***************************************************************************)
EXTENDS Integers, Sequences, FiniteSets, Bags, TLC

\* Bounds of the model.
MaxTasks == 2      \* calls of the instance that may be in flight at once
MaxCalls == 3      \* calls made on the instance in one behaviour

(***************************************************************************)
(* JavaScript values                                                       *)
(***************************************************************************)
Undefined == [t |-> "undefined"]
JsNull == [t |-> "null"]
Void == [t |-> "void"]
Str(s) == [t |-> "string", s |-> s]
Bool(b) == [t |-> "boolean", b |-> b]
Arr(items) == [t |-> "array", items |-> items]
\* An object is the sequence of its <<key, value>> properties in insertion order.
Obj(fields) == [t |-> "object", fields |-> fields]
\* A thrown Error instance, and a thrown value that is not an Error.
Err(m) == [t |-> "Error", message |-> m]
NonError == [t |-> "thrown"]

Truthy(v) ==
  CASE v.t = "undefined" -> FALSE
    [] v.t = "null" -> FALSE
    [] v.t = "string" -> v.s # << >>
    [] v.t = "boolean" -> v.b
    [] OTHER -> TRUE

\* Property access v[k] on a value that is neither null nor undefined.
RECURSIVE Lookup(_, _, _)
Lookup(fields, k, i) ==
  IF i = 0 THEN Undefined
  ELSE IF fields[i][1] = k THEN fields[i][2]
  ELSE Lookup(fields, k, i - 1)

Get(v, k) == IF v.t = "object" THEN Lookup(v.fields, k, Len(v.fields)) ELSE Undefined

Nullish(v) == v.t \in {"undefined", "null"}

\* JSON.stringify on strings, null, arrays and plain objects (no escapes are
\* needed for the fragments used here).
RECURSIVE JSONStringify(_), StringifyElems(_, _), StringifyFields(_, _, _)
JSONStringify(v) ==
  CASE v.t = "string" -> <<"\"">> \o v.s \o <<"\"">>
    [] v.t = "boolean" -> IF v.b THEN <<"true">> ELSE <<"false">>
    [] v.t = "array" -> <<"[">> \o StringifyElems(v.items, 1) \o <<"]">>
    [] v.t = "object" -> <<"{">> \o StringifyFields(v.fields, 1, TRUE) \o <<"}">>
    [] OTHER -> <<"null">>

StringifyElems(items, i) ==
  IF i > Len(items) THEN << >>
  ELSE (IF i > 1 THEN <<",">> ELSE << >>)
       \o JSONStringify(items[i]) \o StringifyElems(items, i + 1)

\* Properties whose value is undefined are omitted.
StringifyFields(fields, i, first) ==
  IF i > Len(fields) THEN << >>
  ELSE IF fields[i][2].t = "undefined" THEN StringifyFields(fields, i + 1, first)
  ELSE (IF first THEN << >> ELSE <<",">>)
       \o <<"\"", fields[i][1], "\"", ":">> \o JSONStringify(fields[i][2])
       \o StringifyFields(fields, i + 1, FALSE)

\* String(v) as a template literal `${v}` renders it.
RECURSIVE ToStr(_), JoinVals(_, _, _)
ToStr(v) ==
  CASE v.t = "string" -> v.s
    [] v.t = "undefined" -> <<"undefined">>
    [] v.t = "null" -> <<"null">>
    [] v.t = "boolean" -> IF v.b THEN <<"true">> ELSE <<"false">>
    [] v.t = "array" -> JoinVals(v.items, <<",">>, 1)
    [] OTHER -> <<"[object Object]">>

\* Array.prototype.join: null and undefined elements render as ''.
JoinVals(vals, sep, i) ==
  IF i > Len(vals) THEN << >>
  ELSE (IF i > 1 THEN sep ELSE << >>)
       \o (IF Nullish(vals[i]) THEN << >> ELSE ToStr(vals[i]))
       \o JoinVals(vals, sep, i + 1)

\* Array.prototype.filter(Boolean)
RECURSIVE FilterTruthy(_)
FilterTruthy(vals) ==
  IF vals = << >> THEN << >>
  ELSE (IF Truthy(Head(vals)) THEN <<Head(vals)>> ELSE << >>) \o FilterTruthy(Tail(vals))

TypeErrorRead(prop) == Err(<<"Cannot read properties of null (reading '", prop, "')">>)

(***************************************************************************)
(* Response normaliser of CodeInterpreter                                  *)
(***************************************************************************)
\* Variant: absent fields of a resource_link are not filtered out.
ExtractItem_NoFilter(item) ==
  LET type == Get(item, "type") IN
  IF type = Str(<<"text">>) THEN Get(item, "text")
  ELSE IF type = Str(<<"resource">>) /\ Truthy(Get(item, "resource")) THEN
    LET resource == Get(item, "resource") IN
    IF Truthy(Get(resource, "text")) THEN Get(resource, "text")
    ELSE Str(JSONStringify(resource))
  ELSE IF type = Str(<<"resource_link">>) THEN
    LET meta == JoinVals(<<Get(item, "name"), Get(item, "description"),
                           Get(item, "mimeType")>>, <<" - ">>, 1)
    IN Str(meta \o <<" (">> \o ToStr(Get(item, "uri")) \o <<")">>)
  ELSE Str(JSONStringify(item))

\* The part one item of a content array contributes.
ExtractItem(item) ==
  LET type == Get(item, "type") IN
  IF type = Str(<<"text">>) THEN Get(item, "text")
  ELSE IF type = Str(<<"resource">>) /\ Truthy(Get(item, "resource")) THEN
    LET resource == Get(item, "resource") IN
    IF Truthy(Get(resource, "text")) THEN Get(resource, "text")
    ELSE Str(JSONStringify(resource))
  ELSE IF type = Str(<<"resource_link">>) THEN
    LET meta == JoinVals(FilterTruthy(<<Get(item, "name"), Get(item, "description"),
                                        Get(item, "mimeType")>>), <<" - ">>, 1)
    IN Str(meta \o <<" (">> \o ToStr(Get(item, "uri")) \o <<")">>)
  ELSE Str(JSONStringify(item))

\* Variant: the parts are joined by a space.
_extractFromContentArray_Spaces(content) ==
  IF \E i \in 1..Len(content) : Nullish(content[i])
  THEN [thrown |-> TRUE, value |-> TypeErrorRead("type")]
  ELSE [thrown |-> FALSE,
        value |-> Str(JoinVals([i \in 1..Len(content) |-> ExtractItem(content[i])],
                               <<" ">>, 1))]

\* [thrown, value]: reading item.type of a null or undefined item throws.
_extractFromContentArray(content) ==
  IF \E i \in 1..Len(content) : Nullish(content[i])
  THEN [thrown |-> TRUE, value |-> TypeErrorRead("type")]
  ELSE [thrown |-> FALSE,
        value |-> Str(JoinVals([i \in 1..Len(content) |-> ExtractItem(content[i])],
                               <<"\n">>, 1))]

\* The three-way dispatch on the shape of a truthy content value.
NormalizeContent(content) ==
  IF content.t = "array" THEN _extractFromContentArray(content.items)
  ELSE IF content.t = "string" THEN [thrown |-> FALSE, value |-> content]
  ELSE [thrown |-> FALSE, value |-> Str(JSONStringify(content))]

\* Variant: the events' contributions are concatenated.
StreamStep_Concat(acc, event) ==
  LET afterContent ==
        IF acc.thrown THEN acc
        ELSE IF Truthy(event.content)
        THEN LET n == NormalizeContent(event.content)
             IN IF n.thrown THEN n
                ELSE [thrown |-> FALSE, value |-> Str(acc.value.s \o n.value.s)]
        ELSE acc
  IN IF afterContent.thrown THEN afterContent
     ELSE IF Truthy(event.error)
          THEN [thrown |-> FALSE,
                value |-> Str(afterContent.value.s \o
                              (IF Truthy(Get(event.error, "message"))
                               THEN Get(event.error, "message").s
                               ELSE <<"Unknown error">>))]
          ELSE afterContent

\* Variant: an error replaces the result only of an event without content.
StreamStep_KeepsContent(acc, event) ==
  IF acc.thrown THEN acc
  ELSE IF Truthy(event.content) THEN NormalizeContent(event.content)
  ELSE IF Truthy(event.error)
       THEN [thrown |-> FALSE,
             value |-> IF Truthy(Get(event.error, "message"))
                       THEN Get(event.error, "message")
                       ELSE Str(<<"Unknown error">>)]
       ELSE acc

\* One iteration of the for-await loop over response.stream.
StreamStep(acc, event) ==
  LET afterContent ==
        IF acc.thrown THEN acc
        ELSE IF Truthy(event.content) THEN NormalizeContent(event.content)
        ELSE acc
  IN IF afterContent.thrown THEN afterContent
     ELSE IF Truthy(event.error)
          THEN [thrown |-> FALSE,
                value |-> IF Truthy(Get(event.error, "message"))
                          THEN Get(event.error, "message")
                          ELSE Str(<<"Unknown error">>)]
          ELSE afterContent

RECURSIVE StreamFold(_, _, _)
StreamFold(acc, events, i) ==
  IF i > Len(events) THEN acc
  ELSE StreamFold(StreamStep(acc, events[i]), events, i + 1)

\* Variant: a response flagged isError is rendered as an error string.
_parseInvokeResponse_Flagged(response) ==
  LET empty == [thrown |-> FALSE, value |-> Str(<< >>)]
      plain == IF response.hasStream THEN StreamFold(empty, response.events, 1)
               ELSE IF Truthy(response.content) THEN NormalizeContent(response.content)
               ELSE empty
  IN IF response.isError /\ ~plain.thrown
     THEN [thrown |-> FALSE, value |-> Str(<<"Error: ">> \o ToStr(plain.value))]
     ELSE plain

\* response: [hasStream, events, content, error, isError]; content is
\* response.result?.content.  The isError flag is never read, and neither is
\* the error member of a response that is not a stream.
_parseInvokeResponse(response) ==
  LET empty == [thrown |-> FALSE, value |-> Str(<< >>)] IN
  IF response.hasStream THEN StreamFold(empty, response.events, 1)
  ELSE IF Truthy(response.content) THEN NormalizeContent(response.content)
  ELSE empty

(***************************************************************************)
(* Constants of the source                                                 *)
(***************************************************************************)
DEFAULT_IDENTIFIER == Str(<<"aws.browser.v1">>)
DEFAULT_SESSION_NAME == Str(<<"default">>)
Num(n) == [t |-> "number", n |-> n]
DEFAULT_TIMEOUT == Num(3600)

AlreadyActive == Err(<<"Session already active. Call stopSession() first.">>)

Kinds == {"CodeInterpreter", "Browser", "PlaywrightBrowser"}
TierOneOps == {"executeCode", "executeCommand", "readFiles", "writeFiles",
               "listFiles", "removeFiles"}

\* Tier-2 operations of PlaywrightBrowser: those that make one protocol call,
\* those that read text, the history operations, and isVisible.
DirectOps == {"navigate", "click", "type", "screenshot", "evaluate", "refresh",
              "getCookies", "setCookies", "pressKey", "waitForSelector", "fill"}
TextOps == {"getText", "getHtml"}
NavOps == {"back", "forward"}
TierTwoOps == DirectOps \cup TextOps \cup NavOps \cup {"isVisible"}

\* Session-metadata operations of Browser, inherited by PlaywrightBrowser.
MetadataOps == {"getSession", "listSessions", "updateBrowserStream"}
\* this.identifier of a Browser constructed without config.identifier.
identifier == DEFAULT_IDENTIFIER
\* this.identifier of each class constructed without config.identifier.
IdentifierOf(k) ==
  IF k = "CodeInterpreter" THEN Str(<<"aws.codeinterpreter.v1">>) ELSE identifier
IdsRequired ==
  Err(<<"Browser ID and Session ID must be provided or available from current session. ",
        "Start a session first or provide explicit IDs.">>)
BrowserIdRequired == Err(<<"Browser ID must be provided or available from configuration">>)

\* The text a tier-1 catch block uses for a thrown value that is not an Error.
Fallback(op) ==
  CASE op = "executeCode" -> <<"Unknown execution error">>
    [] op = "executeCommand" -> <<"Command execution failed">>
    [] op = "readFiles" -> <<"Read failed">>
    [] op = "writeFiles" -> <<"Write failed">>
    [] op = "listFiles" -> <<"List failed">>
    [] op = "removeFiles" -> <<"Remove failed">>

\* a ?? b
Coalesce(a, b) == IF Nullish(a) THEN b ELSE a

(***************************************************************************)
(* Inputs: what callers pass and what the remote collaborators answer      *)
(***************************************************************************)
\* params of startSession; NoParams is a call without params.
NoParams == [sessionName |-> Undefined, description |-> Undefined, timeout |-> Undefined]
StartParams ==
  {NoParams,
   [sessionName |-> Str(<<"analysis">>), description |-> Str(<<"customer data">>),
    timeout |-> Num(1800)]}

\* What a failing remote call throws.
Messages == {<<"Service unavailable">>}
Throwables == {Err(m) : m \in Messages} \cup {NonError}

\* params of the session-metadata operations: the ids are absent, empty or
\* explicit.  What the remote call of such an operation answers: a response
\* without optional members, and one with them.
MetadataParams ==
  [browserId : {Undefined, Str(<< >>)}, sessionId : {Undefined, Str(<<"s-explicit">>)}]
MetadataResponses ==
  {[status |-> Undefined, items |-> Undefined, streamStatus |-> Undefined],
   [status |-> Str(<<"READY">>),
    items |-> Arr(<<Obj(<< <<"sessionId", Str(<<"s-1">>)>>, <<"status", Undefined>> >>)>>),
    streamStatus |-> Str(<<"ENABLED">>)]}

\* Parameters of the operations that the code branches on or substitutes.
NoArgs == [selector |-> Undefined, encoding |-> Undefined, language |-> Undefined,
           path |-> Undefined, waitUntil |-> Undefined, fullPage |-> Undefined,
           type |-> Undefined]
ArgsOf(op) ==
  CASE op \in TextOps -> {NoArgs, [NoArgs EXCEPT !.selector = Str(<< >>)],
                          [NoArgs EXCEPT !.selector = Str(<<"#title">>)]}
    [] op = "isVisible" -> {[NoArgs EXCEPT !.selector = Str(<<"#title">>)]}
    [] op = "screenshot" -> {NoArgs, [NoArgs EXCEPT !.encoding = Str(<<"base64">>)],
                             [NoArgs EXCEPT !.encoding = Str(<<"binary">>),
                                            !.fullPage = Bool(TRUE),
                                            !.type = Str(<<"jpeg">>)]}
    [] op = "navigate" -> {NoArgs, [NoArgs EXCEPT !.waitUntil = Str(<<"networkidle">>)]}
    [] op = "executeCode" -> {NoArgs, [NoArgs EXCEPT !.language = Str(<<"javascript">>)]}
    [] op = "listFiles" -> {NoArgs, [NoArgs EXCEPT !.path = Str(<<"/tmp">>)]}
    [] OTHER -> {NoArgs}

\* Variant: the parameters are passed on as they are.
Arguments_Raw(op, args) ==
  CASE op = "executeCode" -> [language |-> args.language]
    [] op = "listFiles" -> [path |-> args.path]
    [] op = "navigate" -> [waitUntil |-> args.waitUntil]
    [] op = "screenshot" -> [fullPage |-> args.fullPage, type |-> args.type]
    [] OTHER -> Undefined

\* The arguments of the invoke command, or the options of the page method,
\* that an operation builds from its parameters.
Arguments(op, args) ==
  CASE op = "executeCode" -> [language |-> Coalesce(args.language, Str(<<"python">>))]
    [] op = "listFiles" -> [path |-> Coalesce(args.path, Str(<<".">>))]
    [] op = "navigate" ->
         [waitUntil |-> Coalesce(args.waitUntil, Str(<<"domcontentloaded">>))]
    [] op = "screenshot" -> [fullPage |-> Coalesce(args.fullPage, Bool(FALSE)),
                             type |-> Coalesce(args.type, Str(<<"png">>))]
    [] OTHER -> Undefined

\* What the automation layer throws: as the remote calls, and a TimeoutError.
TimeoutError == [t |-> "Error", message |-> <<"Timeout 30000ms exceeded">>,
                 class |-> "TimeoutError"]
ProtocolThrowables == Throwables \cup {TimeoutError}

\* What a protocol call of an operation returns.
Buffer(data) == [t |-> "Buffer", data |-> data]
ReturnsOf(op) ==
  CASE op = "getText" -> {JsNull, Str(<<"Example Domain">>)}
    [] op \in {"getHtml", "evaluate"} -> {Str(<<"Example Domain">>)}
    [] op = "getCookies" -> {Arr(<< >>)}
    [] op = "screenshot" -> {Buffer(<<"png">>)}
    [] OTHER -> {Undefined}
ProtocolValues == UNION {ReturnsOf(op) : op \in TierTwoOps}

TextItem(s) == Obj(<< <<"type", Str(<<"text">>)>>, <<"text", Str(s)>> >>)
Response(hasStream, events, content, isError) ==
  [hasStream |-> hasStream, events |-> events, content |-> content, error |-> Undefined,
   isError |-> isError]
Event(content, error, isError) == [content |-> content, error |-> error, isError |-> isError]

\* Responses of a successful invoke call: two contents, each with and without
\* the isError flag, plain and as a one-event stream; an empty response; a
\* stream that ends with an error event.
InvokeContents ==
  {Str(<<"File not found">>), Arr(<<TextItem(<<"a">>), TextItem(<<"b">>)>>)}
InvokeResponses ==
  {Response(FALSE, << >>, c, e) : c \in InvokeContents, e \in BOOLEAN}
  \cup {Response(TRUE, <<Event(c, Undefined, e)>>, Undefined, e) :
          c \in InvokeContents, e \in BOOLEAN}
  \cup {Response(FALSE, << >>, Undefined, FALSE)}
  \cup {Response(TRUE, <<Event(Str(<<"partial">>), Undefined, FALSE),
                         Event(Undefined, Obj(<< <<"message", Str(<<"Execution failed">>)>> >>), TRUE)>>,
                 Undefined, TRUE)}

\* Envelopes of the kinds the normaliser consumes: string content, content
\* arrays (known kinds; known and unknown kinds mixed; items that are not
\* objects; a null item), content that is neither string nor array, and
\* explicit error objects with and without a message.
ErrorObject(message) == Obj(<< <<"message", Str(message)>> >>)
ResourceItem(resource) == Obj(<< <<"type", Str(<<"resource">>)>>, <<"resource", resource>> >>)
MixedArray ==
  Arr(<<TextItem(<<"out">>),
        ResourceItem(Obj(<< <<"uri", Str(<<"file:///a.txt">>)>>, <<"text", Str(<<"body">>)>> >>)),
        ResourceItem(Obj(<< <<"uri", Str(<<"file:///b.bin">>)>> >>)),
        Obj(<< <<"type", Str(<<"resource_link">>)>>, <<"name", Str(<<"a.txt">>)>>,
               <<"mimeType", Str(<<"text/plain">>)>>, <<"uri", Str(<<"file:///a.txt">>)>> >>),
        Obj(<< <<"type", Str(<<"image">>)>>, <<"data", Obj(<< <<"k", JsNull>> >>)>> >>)>>)
\* resource_link items with every combination of name, description and
\* MIME type present or absent.
LinkItems ==
  {Obj(<< <<"type", Str(<<"resource_link">>)>>, <<"name", n>>, <<"description", d>>,
          <<"mimeType", m>>, <<"uri", Str(<<"file:///a.txt">>)>> >>) :
     n \in {Undefined, Str(<<"a.txt">>)},
     d \in {Undefined, Str(<<"notes">>)},
     m \in {Undefined, Str(<<"text/plain">>)}}
Envelopes ==
  {Event(Arr(<<TextItem(<<"listing">>), item>>), Undefined, FALSE) : item \in LinkItems}
  \cup
  {Event(c, Undefined, FALSE) :
     c \in {Str(<<"hello">>),
            Arr(<<Obj(<< <<"type", Str(<<"resource">>)>> >>),
                  ResourceItem(Obj(<< <<"uri", Str(<<"file:///c">>)>>, <<"text", Str(<< >>)>> >>))>>),
            Arr(<<TextItem(<<"a">>), TextItem(<<"b">>)>>),
            MixedArray,
            Arr(<<TextItem(<<"a">>), Str(<<"bare">>), Obj(<< >>)>>),
            Arr(<<TextItem(<<"a">>), JsNull>>),
            Obj(<< <<"status", Obj(<< <<"code", Str(<<"E1">>)>> >>)>> >>),
            Bool(TRUE)}}
  \cup {Event(Undefined, ErrorObject(m), TRUE) : m \in {<<"Execution failed">>, << >>}}
  \cup {Event(Undefined, Obj(<< <<"code", Str(<<"E1">>)>> >>), TRUE)}
  \cup {Event(Str(<<"partial">>), ErrorObject(<<"Execution failed">>), TRUE)}

\* The response that consists of the one envelope E, and the stream whose
\* only event is E.
AsResponse(E) == [Response(FALSE, << >>, E.content, E.isError) EXCEPT !.error = E.error]
AsStream(E) == Response(TRUE, <<E>>, Undefined, E.isError)

\* Streams of three events: two that carry distinct text, then an error object.
ThreeEventStreams ==
  {Response(TRUE, <<Event(c1, Undefined, FALSE), Event(c2, Undefined, FALSE),
                    Event(Undefined, ErrorObject(m), TRUE)>>, Undefined, TRUE) :
     c1 \in {Str(<<"first">>), Arr(<<TextItem(<<"first">>), TextItem(<<"more">>)>>)},
     c2 \in {Str(<<"second">>)},
     m \in {<<"Execution failed">>, << >>}}

\* Streams of two events: one that carries text, then one whose content is
\* absent, empty or text and that carries no error, an error with a
\* message, with an empty message or without one; and a stream whose error
\* event is followed by text.
EmptyContents == {Undefined, Str(<< >>), Arr(<< >>)}
TwoEventStreams ==
  {Response(TRUE, <<Event(Str(<<"first">>), Undefined, FALSE), Event(c, e, e # Undefined)>>,
            Undefined, e # Undefined) :
     c \in EmptyContents \cup {Str(<<"partial">>)},
     e \in {Undefined, ErrorObject(<<"Execution failed">>), ErrorObject(<< >>),
            Obj(<< <<"code", Str(<<"E1">>)>> >>)}}
  \cup {Response(TRUE, <<Event(Undefined, ErrorObject(<<"Execution failed">>), TRUE),
                         Event(Str(<<"second">>), Undefined, FALSE)>>, Undefined, TRUE)}

NormalizerResponses ==
  {AsResponse(E) : E \in Envelopes} \cup {AsStream(E) : E \in Envelopes}
  \cup ThreeEventStreams \cup TwoEventStreams

(***************************************************************************)
(* State                                                                   *)
(***************************************************************************)
VARIABLES
  kind,          \* class of the client instance
  exercised,     \* the operation the caller uses in this behaviour besides
                 \* startSession and stopSession
  awaited,       \* the caller awaits every call before it makes the next
  session,       \* this._session
  pwBrowser,     \* this._playwrightBrowser: 0 is null, else the session id attached to
  pwPage,        \* this._playwrightPage: 0 is null, else the session id of its browser
  live,          \* remote sessions created by the instance and not stopped
  nextId,        \* next session id the remote service assigns
  tasks,         \* the calls in flight: a bag of call records
  last,          \* the record of the call that completed most recently
  calls,         \* number of calls made so far
  overlapped     \* history: some call began while another was in flight

vars == <<kind, exercised, awaited, session, pwBrowser, pwPage, live, nextId, tasks, last, calls, overlapped>>

NoSession == JsNull

IdleTask ==
  [op |-> "none", pc |-> "idle", outcome |-> "none", value |-> Void,
   params |-> NoParams, req |-> Undefined,
   creates |-> 0, invokes |-> 0, stops |-> 0, closes |-> 0,
   connects |-> 0, protos |-> 0, sends |-> 0,
   sid |-> 0, created |-> 0, caught |-> Undefined, response |-> Undefined,
   args |-> NoArgs, sent |-> Undefined, target |-> Undefined,
   tried |-> << >>, fails |-> 0, page |-> 0,
   again |-> FALSE]

\* The operations of each class besides startSession and stopSession.
\* The public operations of Browser that serve an existing session.
SessionOps == MetadataOps \cup {"generateWebSocketUrl"}

OpsOf(k) ==
  CASE k = "CodeInterpreter" -> TierOneOps
    [] k = "PlaywrightBrowser" -> TierTwoOps \cup SessionOps
    [] OTHER -> SessionOps

\* The operations exercised when calls may overlap.  The tier-2 operations
\* all reach the slot and the handles through _ensureConnected only;
\* isVisible stands for them.
Overlapping(k) ==
  CASE k = "CodeInterpreter" -> TierOneOps
    [] k = "PlaywrightBrowser" -> {"isVisible"}
    [] OTHER -> {"none"}

Init ==
  /\ kind \in Kinds
  /\ exercised \in Overlapping(kind)
  /\ awaited = FALSE
  /\ session = NoSession
  /\ pwBrowser = 0
  /\ pwPage = 0
  /\ live = {}
  /\ nextId = 1
  /\ tasks = EmptyBag
  /\ last = IdleTask
  /\ calls = 0
  /\ overlapped = FALSE

InFlight == BagToSet(tasks)

CanCall ==
  /\ calls < MaxCalls
  /\ BagCardinality(tasks) < MaxTasks
  /\ awaited => InFlight = {}

\* The record of a new call.  again is history: nothing is in flight and the
\* call that completed last was a call of the same operation that resolved.
NewTask(op) ==
  [IdleTask EXCEPT !.op = op, !.pc = "running", !.outcome = "pending",
                   !.again = /\ InFlight = {}
                             /\ last.op = op
                             /\ last.outcome = "resolved"]

\* A call is made and has run up to its first await, or to its end: rec.
Called(rec) ==
  /\ CanCall
  /\ calls' = calls + 1
  /\ overlapped' = (overlapped \/ InFlight # {})
  /\ IF rec.pc = "done"
     THEN tasks' = tasks /\ last' = rec
     ELSE tasks' = tasks (+) SetToBag({rec}) /\ last' = last

\* The call in flight with record r has run to its next await, or to its
\* end: rec.
Settle(r, rec) ==
  /\ BagIn(r, tasks)
  /\ IF rec.pc = "done"
     THEN tasks' = tasks (-) SetToBag({r}) /\ last' = rec
     ELSE tasks' = (tasks (-) SetToBag({r})) (+) SetToBag({rec}) /\ last' = last

Resolve(tk, v) == [tk EXCEPT !.pc = "done", !.outcome = "resolved", !.value = v]
Reject(tk, e) == [tk EXCEPT !.pc = "done", !.outcome = "rejected", !.value = e]
\* A catch block caught e and the call resolves to v (caught is history).
Recover(tk, e, v) == [Resolve(tk, v) EXCEPT !.caught = e]

(***************************************************************************)
(* Session management (CodeInterpreter and Browser)                        *)
(***************************************************************************)
\* Variant: the guard is missing.
StartSessionBegin_NoGuard(tk, params) ==
  [tk EXCEPT !.pc = "awaitCreate", !.params = params, !.creates = @ + 1,
                  !.target = IdentifierOf(kind),
             !.req = [name |-> Coalesce(params.sessionName, DEFAULT_SESSION_NAME),
                      timeout |-> Coalesce(params.timeout, DEFAULT_TIMEOUT)]]

\* Variant: the guard also refuses while a create-session call is in flight.
StartSessionBegin_Locked(tk, params) ==
  IF session # NoSession \/ \E u \in InFlight : u.pc = "awaitCreate"
  THEN Reject(tk, AlreadyActive)
  ELSE [tk EXCEPT !.pc = "awaitCreate", !.params = params, !.creates = @ + 1,
                  !.target = IdentifierOf(kind),
                  !.req = [name |-> Coalesce(params.sessionName, DEFAULT_SESSION_NAME),
                           timeout |-> Coalesce(params.timeout, DEFAULT_TIMEOUT)]]

\* startSession up to its await: the guard, then the create-session request.
StartSessionBegin(tk, params) ==
  IF session # NoSession THEN Reject(tk, AlreadyActive)
  ELSE [tk EXCEPT !.pc = "awaitCreate", !.params = params, !.creates = @ + 1,
                  !.target = IdentifierOf(kind),
                  !.req = [name |-> Coalesce(params.sessionName, DEFAULT_SESSION_NAME),
                           timeout |-> Coalesce(params.timeout, DEFAULT_TIMEOUT)]]

\* Variant: the description is dropped.
SessionInfoOf_NoDescription(tk, id) ==
  [t |-> "SessionInfo", sessionName |-> tk.req.name, sessionId |-> id,
   description |-> Undefined]

\* The record startSession builds from the response.  Browser stores no description.
SessionInfoOf(tk, id) ==
  [t |-> "SessionInfo", sessionName |-> tk.req.name, sessionId |-> id,
   description |-> IF kind = "CodeInterpreter" THEN tk.params.description ELSE Undefined]

StartSession(params) ==
  /\ Called( StartSessionBegin(NewTask("startSession"), params))
  /\ UNCHANGED <<kind, exercised, awaited, session, pwBrowser, pwPage, live, nextId>>

\* The create-session call returns: the slot is written.  A direct call
\* returns the record; inside another operation the caller resumes later.
\* Variant: a stopSession that resolved meanwhile cancels the pending start.
StartSessionReturn_Cancelled(r) ==
  /\ r.pc = "awaitCreate"
  /\ LET info == SessionInfoOf(r, nextId)
         tk == [r EXCEPT !.created = nextId]
     IN /\ session' = IF last.op = "stopSession" /\ last.outcome = "resolved"
                      THEN NoSession ELSE info
        /\ Settle(r,
                       IF tk.op = "startSession" THEN Resolve(tk, info)
                       ELSE [tk EXCEPT !.pc = "afterStart"])
  /\ live' = live \cup {nextId}
  /\ nextId' = nextId + 1
  /\ UNCHANGED <<kind, exercised, awaited, pwBrowser, pwPage, calls, overlapped>>

\* Variant: a record already in the slot is kept.
StartSessionReturn_KeepsFirst(r) ==
  /\ r.pc = "awaitCreate"
  /\ LET info == SessionInfoOf(r, nextId)
         tk == [r EXCEPT !.created = nextId]
     IN /\ session' = IF session = NoSession THEN info ELSE session
        /\ Settle(r,
                       IF tk.op = "startSession" THEN Resolve(tk, info)
                       ELSE [tk EXCEPT !.pc = "afterStart"])
  /\ live' = live \cup {nextId}
  /\ nextId' = nextId + 1
  /\ UNCHANGED <<kind, exercised, awaited, pwBrowser, pwPage, calls, overlapped>>

StartSessionReturn(r) ==
  /\ r.pc = "awaitCreate"
  /\ LET info == SessionInfoOf(r, nextId)
         tk == [r EXCEPT !.created = nextId]
     IN /\ session' = info
        /\ Settle(r,
                       IF tk.op = "startSession" THEN Resolve(tk, info)
                       ELSE [tk EXCEPT !.pc = "afterStart"])
  /\ live' = live \cup {nextId}
  /\ nextId' = nextId + 1
  /\ UNCHANGED <<kind, exercised, awaited, pwBrowser, pwPage, calls, overlapped>>

\* Variant: an operation that awaited startSession goes on after the failure.
StartSessionFail_Continues(r, e) ==
  /\ r.pc = "awaitCreate"
  /\ Settle(r, IF r.op = "startSession" THEN Reject(r, e)
               ELSE [r EXCEPT !.pc = "afterStart", !.caught = e])
  /\ UNCHANGED <<kind, exercised, awaited, session, pwBrowser, pwPage, live, nextId, calls, overlapped>>

\* Variant: the failed call leaves a record in the slot.
StartSessionFail_WritesSlot(r, e) ==
  /\ r.pc = "awaitCreate"
  /\ session' = SessionInfoOf(r, 0)
  /\ Settle(r, Reject(r, e))
  /\ UNCHANGED <<kind, exercised, awaited, pwBrowser, pwPage, live, nextId, calls, overlapped>>

\* The create-session call fails: startSession rejects, and so does the
\* operation that awaited it outside of any try block.
StartSessionFail(r, e) ==
  /\ r.pc = "awaitCreate"
  /\ Settle(r, Reject(r, e))
  /\ UNCHANGED <<kind, exercised, awaited, session, pwBrowser, pwPage, live, nextId, calls, overlapped>>

\* Variant: stopping without a session is an error.
StopSessionBegin_Throws(tk) ==
  IF session = NoSession THEN Reject(tk, Err(<<"No active session">>))
  ELSE [tk EXCEPT !.pc = "awaitStop", !.stops = @ + 1, !.sid = session.sessionId]

\* stopSession of CodeInterpreter and Browser up to its await.
StopSessionBegin(tk) ==
  IF session = NoSession THEN Resolve(tk, Void)
  ELSE [tk EXCEPT !.pc = "awaitStop", !.stops = @ + 1, !.sid = session.sessionId]

\* stopSession is called.  PlaywrightBrowser first closes a cached browser.
StopSession ==
  /\ Called(
                 IF kind = "PlaywrightBrowser" /\ pwBrowser # 0
                 THEN [NewTask("stopSession") EXCEPT !.pc = "awaitClose", !.closes = @ + 1]
                 ELSE StopSessionBegin(NewTask("stopSession")))
  /\ UNCHANGED <<kind, exercised, awaited, session, pwBrowser, pwPage, live, nextId>>

\* Variant: the slot is not cleared.
StopSessionReturn_KeepsSlot(r) ==
  /\ r.pc = "awaitStop"
  /\ session' = session
  /\ live' = live \ {r.sid}
  /\ Settle(r, Resolve(r, Void))
  /\ UNCHANGED <<kind, exercised, awaited, pwBrowser, pwPage, nextId, calls, overlapped>>

StopSessionReturn(r) ==
  /\ r.pc = "awaitStop"
  /\ session' = NoSession
  /\ live' = live \ {r.sid}
  /\ Settle(r, Resolve(r, Void))
  /\ UNCHANGED <<kind, exercised, awaited, pwBrowser, pwPage, nextId, calls, overlapped>>

\* Variant: the slot is cleared although the stop-session call failed.
StopSessionFail_ClearsSlot(r, e) ==
  /\ r.pc = "awaitStop"
  /\ session' = NoSession
  /\ Settle(r, Reject(r, e))
  /\ UNCHANGED <<kind, exercised, awaited, pwBrowser, pwPage, live, nextId, calls, overlapped>>

\* The stop-session call fails: nothing catches it and the slot is kept.
StopSessionFail(r, e) ==
  /\ r.pc = "awaitStop"
  /\ Settle(r, Reject(r, e))
  /\ UNCHANGED <<kind, exercised, awaited, session, pwBrowser, pwPage, live, nextId, calls, overlapped>>

(***************************************************************************)
(* Tier-1 operations of CodeInterpreter                                    *)
(***************************************************************************)
\* Variant: the message of the error is dropped.
CatchString_Fallback(op, e) == Str(<<"Error: ">> \o Fallback(op))

\* `Error: ${error instanceof Error ? error.message : fallback}`
CatchString(op, e) ==
  Str(<<"Error: ">> \o (IF e.t = "Error" THEN e.message ELSE Fallback(op)))

\* The try block up to the await of the invoke call.
InvokeBegin(tk) ==
  IF session = NoSession
  THEN Recover(tk, TypeErrorRead("sessionId"), CatchString(tk.op, TypeErrorRead("sessionId")))
  ELSE [tk EXCEPT !.pc = "awaitInvoke", !.invokes = @ + 1, !.sid = session.sessionId,
                  !.sent = Arguments(tk.op, tk.args)]

\* The parameters a tier-1 operation is called with: left unset where calls
\* may overlap, unset or supplied where they are awaited.
TierOneArgs(op) == IF awaited THEN ArgsOf(op) ELSE {NoArgs}

\* Variant: no session is provisioned.
TierOne_NoAutoStart(op) ==
  /\ kind = "CodeInterpreter"
  /\ op = exercised
  /\ \E args \in TierOneArgs(op) :
       Called(InvokeBegin([NewTask(op) EXCEPT !.args = args]))
  /\ UNCHANGED <<kind, exercised, awaited, session, pwBrowser, pwPage, live, nextId>>

\* A tier-1 operation is called: without a session it awaits startSession().
TierOne(op) ==
  /\ kind = "CodeInterpreter"
  /\ op = exercised
  /\ \E args \in TierOneArgs(op) :
       LET tk == [NewTask(op) EXCEPT !.args = args]
       IN Called(IF session = NoSession THEN StartSessionBegin(tk, NoParams)
                 ELSE InvokeBegin(tk))
  /\ UNCHANGED <<kind, exercised, awaited, session, pwBrowser, pwPage, live, nextId>>

\* The operation resumes after `await this.startSession()`.
TierOneResume(r) ==
  /\ r.pc = "afterStart"
  /\ r.op \in TierOneOps
  /\ Settle(r, InvokeBegin(r))
  /\ UNCHANGED <<kind, exercised, awaited, session, pwBrowser, pwPage, live, nextId, calls, overlapped>>

\* The invoke call returns a response, which is normalised inside the try.
InvokeReturn(r, response) ==
  /\ r.pc = "awaitInvoke"
  /\ LET parsed == _parseInvokeResponse(response)
         tk == [r EXCEPT !.response = response]   \* history
     IN Settle(r,
                    IF parsed.thrown
                    THEN Recover(tk, parsed.value, CatchString(tk.op, parsed.value))
                    ELSE Resolve(tk, parsed.value))
  /\ UNCHANGED <<kind, exercised, awaited, session, pwBrowser, pwPage, live, nextId, calls, overlapped>>

\* Variant: a failed invoke call is issued once more.
InvokeFail_Retries(r, e) ==
  /\ r.pc = "awaitInvoke"
  /\ Settle(r, IF r.invokes < 2 THEN [r EXCEPT !.invokes = @ + 1]
               ELSE Recover(r, e, CatchString(r.op, e)))
  /\ UNCHANGED <<kind, exercised, awaited, session, pwBrowser, pwPage, live, nextId, calls, overlapped>>

\* The invoke call fails: the catch block renders the error.
InvokeFail(r, e) ==
  /\ r.pc = "awaitInvoke"
  /\ Settle(r, Recover(r, e, CatchString(r.op, e)))
  /\ UNCHANGED <<kind, exercised, awaited, session, pwBrowser, pwPage, live, nextId, calls, overlapped>>

(***************************************************************************)
(* PlaywrightBrowser: connection management and isVisible                  *)
(***************************************************************************)
\* _connectPlaywright up to its first await (the dynamic import).
ConnectBegin(tk) ==
  IF session = NoSession THEN Reject(tk, Err(<<"No active session">>))
  ELSE [tk EXCEPT !.pc = "importing"]

\* Variant: the cached handles are ignored.
EnsureConnection_Always(tk) == ConnectBegin(tk)

\* _ensureConnected from its connection check on.
EnsureConnection(tk) ==
  IF pwBrowser = 0 \/ pwPage = 0 THEN ConnectBegin(tk)
  ELSE [tk EXCEPT !.pc = "connected"]

\* A tier-2 operation is called: it awaits _ensureConnected(), which
\* without a session awaits startSession().
TierTwo(op) ==
  /\ kind = "PlaywrightBrowser"
  /\ op = exercised
  /\ \E args \in ArgsOf(op) :
       LET tk == [NewTask(op) EXCEPT !.args = args]
       IN Called(IF session = NoSession THEN StartSessionBegin(tk, NoParams)
                 ELSE EnsureConnection(tk))
  /\ UNCHANGED <<kind, exercised, awaited, session, pwBrowser, pwPage, live, nextId>>

\* _ensureConnected resumes after `await this.startSession()`.
EnsureResume(r) ==
  /\ r.pc = "afterStart"
  /\ r.op \in TierTwoOps
  /\ Settle(r, EnsureConnection(r))
  /\ UNCHANGED <<kind, exercised, awaited, session, pwBrowser, pwPage, live, nextId, calls, overlapped>>

\* After the import: generateWebSocketUrl reads the session, the request is
\* signed and connectOverCDP is called with the URL of that session.
ConnectAttach(r) ==
  /\ r.pc = "importing"
  /\ Settle(r,
                 IF session = NoSession
                 THEN Reject(r, Err(<<"No active session. Call startSession() first.">>))
                 ELSE [r EXCEPT !.pc = "attaching", !.connects = @ + 1,
                                !.sid = session.sessionId])
  /\ UNCHANGED <<kind, exercised, awaited, session, pwBrowser, pwPage, live, nextId, calls, overlapped>>

\* Variant: the page handle is cached whatever the browser exposes.
AttachReturn_Cached(r, contexts) ==
  /\ r.pc = "attaching"
  /\ pwBrowser' = r.sid
  /\ pwPage' = r.sid
  /\ Settle(r,
                 CASE contexts = "none" -> Reject(r, Err(<<"No browser contexts available">>))
                   [] contexts = "page" -> [r EXCEPT !.pc = "connected"]
                   [] contexts = "empty" -> [r EXCEPT !.pc = "newPage"])
  /\ UNCHANGED <<kind, exercised, awaited, session, live, nextId, calls, overlapped>>

\* connectOverCDP returns.  contexts: "none" (the browser exposes no
\* context), "page" (the first context has a page), "empty" (it has none).
AttachReturn(r, contexts) ==
  /\ r.pc = "attaching"
  /\ pwBrowser' = r.sid
  /\ pwPage' = IF contexts = "page" THEN r.sid ELSE pwPage
  /\ Settle(r,
                 CASE contexts = "none" -> Reject(r, Err(<<"No browser contexts available">>))
                   [] contexts = "page" -> [r EXCEPT !.pc = "connected"]
                   [] contexts = "empty" -> [r EXCEPT !.pc = "newPage"])
  /\ UNCHANGED <<kind, exercised, awaited, session, live, nextId, calls, overlapped>>

\* context.newPage() returns.
NewPageReturn(r) ==
  /\ r.pc = "newPage"
  /\ pwPage' = r.sid
  /\ Settle(r, [r EXCEPT !.pc = "connected"])
  /\ UNCHANGED <<kind, exercised, awaited, session, pwBrowser, live, nextId, calls, overlapped>>

\* An awaited step of the connection (import, credentials, signing, attach,
\* newPage) fails: the operation rejects.
ConnectFail(r, e) ==
  /\ r.pc \in {"importing", "attaching", "newPage"}
  /\ Settle(r, Reject(r, e))
  /\ UNCHANGED <<kind, exercised, awaited, session, pwBrowser, pwPage, live, nextId, calls, overlapped>>

\* isVisible resumes after `await this._ensureConnected()`: inside the try
\* it looks the selector up on the cached page.
IsVisibleLookup(r) ==
  /\ r.pc = "connected"
  /\ r.op = "isVisible"
  /\ Settle(r,
                 IF pwPage = 0 THEN Recover(r, TypeErrorRead("$"), Bool(FALSE))
                 ELSE [r EXCEPT !.pc = "awaitLookup", !.protos = @ + 1])
  /\ UNCHANGED <<kind, exercised, awaited, session, pwBrowser, pwPage, live, nextId, calls, overlapped>>

\* The lookup returns: found is "null" (no element), "visible" or "hidden"
\* (what element.isVisible() answers).
IsVisibleReturn(r, found) ==
  /\ r.pc = "awaitLookup"
  /\ Settle(r, Resolve(r, Bool(found = "visible")))
  /\ UNCHANGED <<kind, exercised, awaited, session, pwBrowser, pwPage, live, nextId, calls, overlapped>>

\* The lookup or element.isVisible() raises: the catch block returns false.
IsVisibleFail(r, e) ==
  /\ r.pc = "awaitLookup"
  /\ Settle(r, Recover(r, e, Bool(FALSE)))
  /\ UNCHANGED <<kind, exercised, awaited, session, pwBrowser, pwPage, live, nextId, calls, overlapped>>

\* PlaywrightBrowser.stopSession: close() returned; the handles are cleared
\* and the stopSession of Browser runs.
CloseReturn(r) ==
  /\ r.pc = "awaitClose"
  /\ pwBrowser' = 0
  /\ pwPage' = 0
  /\ Settle(r, StopSessionBegin(r))
  /\ UNCHANGED <<kind, exercised, awaited, session, live, nextId, calls, overlapped>>

\* Variant: an error raised by close() ends stopSession.
CloseFail_Rejects(r, e) ==
  /\ r.pc = "awaitClose"
  /\ Settle(r, Reject(r, e))
  /\ UNCHANGED <<kind, exercised, awaited, session, pwBrowser, pwPage, live, nextId, calls, overlapped>>

\* close() raised: the error is logged and the stopSession of Browser runs.
CloseFail(r, e) ==
  /\ r.pc = "awaitClose"
  /\ Settle(r, StopSessionBegin([r EXCEPT !.caught = e]))
  /\ UNCHANGED <<kind, exercised, awaited, session, pwBrowser, pwPage, live, nextId, calls, overlapped>>

(***************************************************************************)
(* Browser: session-metadata operations                                    *)
(***************************************************************************)
\* this._session?.sessionId
SlotSessionId == IF session = NoSession THEN Undefined
                 ELSE [t |-> "sessionId", id |-> session.sessionId]

\* Variant: listSessions asks for a session id as the other two do.
MetadataBegin_AllNeedSession(tk, params) ==
  LET browserId == Coalesce(params.browserId, identifier)
      sessionId == Coalesce(params.sessionId, SlotSessionId)
  IN IF ~Truthy(browserId) \/ ~Truthy(sessionId) THEN Reject(tk, IdsRequired)
     ELSE [tk EXCEPT !.pc = "awaitMetadata", !.sends = @ + 1,
                     !.req = [browserIdentifier |-> browserId, sessionId |-> sessionId]]

\* getSession, listSessions and updateBrowserStream up to their await: the
\* ids are resolved and checked, then the command is sent.
MetadataBegin(tk, params) ==
  LET browserId == Coalesce(params.browserId, identifier)
      sessionId == Coalesce(params.sessionId, SlotSessionId)
  IN IF tk.op = "listSessions"
     THEN IF ~Truthy(browserId) THEN Reject(tk, BrowserIdRequired)
          ELSE [tk EXCEPT !.pc = "awaitMetadata", !.sends = @ + 1,
                          !.req = [browserIdentifier |-> browserId, sessionId |-> Undefined]]
     ELSE IF ~Truthy(browserId) \/ ~Truthy(sessionId) THEN Reject(tk, IdsRequired)
          ELSE [tk EXCEPT !.pc = "awaitMetadata", !.sends = @ + 1,
                          !.req = [browserIdentifier |-> browserId, sessionId |-> sessionId]]

\* A session-metadata operation is called.
Metadata(op) ==
  /\ kind \in {"Browser", "PlaywrightBrowser"}
  /\ op = exercised
  /\ \E params \in MetadataParams : Called(MetadataBegin(NewTask(op), params))
  /\ UNCHANGED <<kind, exercised, awaited, session, pwBrowser, pwPage, live, nextId>>

\* One item of response.items as listSessions returns it.
SessionSummary(item) ==
  Obj(<< <<"sessionId", Get(item, "sessionId")>>,
         <<"status", Coalesce(Get(item, "status"), Str(<<"UNKNOWN">>))>> >>)

\* What each operation builds from the response of its command.
MetadataResult(r, response) ==
  CASE r.op = "getSession" ->
         Obj(<< <<"status", Coalesce(response.status, Str(<<"UNKNOWN">>))>> >>)
    [] r.op = "listSessions" ->
         Obj(<< <<"items", IF Nullish(response.items) THEN Arr(<< >>)
                           ELSE Arr([i \in 1..Len(response.items.items) |->
                                       SessionSummary(response.items.items[i])])>> >>)
    [] OTHER ->
         IF Truthy(response.streamStatus)
         THEN Obj(<< <<"streamStatus", response.streamStatus>> >>)
         ELSE Obj(<< >>)

\* The command returns.
MetadataReturn(r, response) ==
  /\ r.pc = "awaitMetadata"
  /\ Settle(r, Resolve(r, MetadataResult(r, response)))
  /\ UNCHANGED <<kind, exercised, awaited, session, pwBrowser, pwPage, live, nextId, calls, overlapped>>

\* The command fails: no try surrounds it.
MetadataFail(r, e) ==
  /\ r.pc = "awaitMetadata"
  /\ Settle(r, Reject(r, e))
  /\ UNCHANGED <<kind, exercised, awaited, session, pwBrowser, pwPage, live, nextId, calls, overlapped>>

(***************************************************************************)
(* Browser: generateWebSocketUrl                                           *)
(***************************************************************************)
NoActiveSession == Err(<<"No active session. Call startSession() first.">>)

\* Variant: without a session one is started.
GenerateWebSocketUrlBegin_AutoStart(tk) ==
  IF session = NoSession THEN StartSessionBegin(tk, NoParams)
  ELSE [tk EXCEPT !.pc = "awaitCredentials", !.sid = session.sessionId]

\* generateWebSocketUrl up to its first await: the URL is built from the
\* identifier and the id of the session in the slot.
GenerateWebSocketUrlBegin(tk) ==
  IF session = NoSession THEN Reject(tk, NoActiveSession)
  ELSE [tk EXCEPT !.pc = "awaitCredentials", !.sid = session.sessionId]

\* generateWebSocketUrl is called.
GenerateWebSocketUrl ==
  /\ kind \in {"Browser", "PlaywrightBrowser"}
  /\ exercised = "generateWebSocketUrl"
  /\ Called(GenerateWebSocketUrlBegin(NewTask("generateWebSocketUrl")))
  /\ UNCHANGED <<kind, exercised, awaited, session, pwBrowser, pwPage, live, nextId>>

\* The credentials provider returns: the request is signed.
WebSocketCredentials(r) ==
  /\ r.pc = "awaitCredentials"
  /\ Settle(r, [r EXCEPT !.pc = "awaitSign"])
  /\ UNCHANGED <<kind, exercised, awaited, session, pwBrowser, pwPage, live, nextId, calls, overlapped>>

\* { url, headers }: the URL names the identifier and the session.
WebSocketConnection(id) ==
  [t |-> "WebSocketConnection", identifier |-> identifier, sessionId |-> id]

\* The signer returns.
WebSocketUrlReturn(r) ==
  /\ r.pc = "awaitSign"
  /\ Settle(r, Resolve(r, WebSocketConnection(r.sid)))
  /\ UNCHANGED <<kind, exercised, awaited, session, pwBrowser, pwPage, live, nextId, calls, overlapped>>

\* The credentials provider or the signer fails: no try surrounds them.
WebSocketUrlFail(r, e) ==
  /\ r.pc \in {"awaitCredentials", "awaitSign"}
  /\ Settle(r, Reject(r, e))
  /\ UNCHANGED <<kind, exercised, awaited, session, pwBrowser, pwPage, live, nextId, calls, overlapped>>

(***************************************************************************)
(* PlaywrightBrowser: the other tier-2 operations                          *)
(***************************************************************************)
\* What an operation returns for the value v of its last protocol call.
Result(op, args, v) ==
  CASE op = "getText" -> Coalesce(v, Str(<< >>))
    [] op \in {"getHtml", "evaluate", "getCookies"} -> v
    [] op = "screenshot" ->
         IF args.encoding = Str(<<"base64">>) THEN Str(<<"base64(">> \o v.data \o <<")">>)
         ELSE v
    [] OTHER -> Void

\* The method of this._playwrightPage an operation calls first.
Method(op) ==
  CASE op = "navigate" -> "goto"
    [] op \in {"getCookies", "setCookies"} -> "context"
    [] op = "pressKey" -> "keyboard"
    [] op = "refresh" -> "reload"
    [] op = "back" -> "goBack"
    [] op = "forward" -> "goForward"
    [] op = "getText" -> "textContent"
    [] op = "getHtml" -> "content"
    [] OTHER -> op

\* A protocol call is issued on the cached page (page is history: the
\* session the page belongs to).
Issue(tk, pc) == [tk EXCEPT !.pc = pc, !.protos = @ + 1, !.page = pwPage,
                           !.sent = Arguments(tk.op, tk.args)]

\* An operation with one protocol call resumes after
\* `await this._ensureConnected()` and calls the page.
ProtocolCall(r) ==
  /\ r.pc = "connected"
  /\ r.op \in DirectOps
  /\ Settle(r, IF pwPage = 0 THEN Reject(r, TypeErrorRead(Method(r.op)))
               ELSE Issue(r, "awaitProtocol"))
  /\ UNCHANGED <<kind, exercised, awaited, session, pwBrowser, pwPage, live, nextId, calls, overlapped>>

\* Variant: the value is dropped.
ProtocolReturn_Void(r, v) ==
  /\ r.pc = "awaitProtocol"
  /\ v \in ReturnsOf(r.op)
  /\ Settle(r, Resolve(r, Void))
  /\ UNCHANGED <<kind, exercised, awaited, session, pwBrowser, pwPage, live, nextId, calls, overlapped>>

\* The last protocol call of an operation returns v.
ProtocolReturn(r, v) ==
  /\ r.pc = "awaitProtocol"
  /\ v \in ReturnsOf(r.op)
  /\ Settle(r, Resolve(r, Result(r.op, r.args, v)))
  /\ UNCHANGED <<kind, exercised, awaited, session, pwBrowser, pwPage, live, nextId, calls, overlapped>>

\* Variant: the error is swallowed.
ProtocolFail_Swallowed(r, e) ==
  /\ r.pc \in {"awaitProtocol", "awaitQuery"}
  /\ Settle(r, Recover(r, e, Void))
  /\ UNCHANGED <<kind, exercised, awaited, session, pwBrowser, pwPage, live, nextId, calls, overlapped>>

\* A protocol call outside of any try block raises: the operation rejects.
ProtocolFail(r, e) ==
  /\ r.pc \in {"awaitProtocol", "awaitQuery"}
  /\ Settle(r, Reject(r, e))
  /\ UNCHANGED <<kind, exercised, awaited, session, pwBrowser, pwPage, live, nextId, calls, overlapped>>

\* getText and getHtml resume after `await this._ensureConnected()`: with a
\* selector they look the element up, without one they read the page.
TextCall(r) ==
  /\ r.pc = "connected"
  /\ r.op \in TextOps
  /\ Settle(r,
       IF Truthy(r.args.selector)
       THEN IF pwPage = 0 THEN Reject(r, TypeErrorRead("$")) ELSE Issue(r, "awaitQuery")
       ELSE IF pwPage = 0 THEN Reject(r, TypeErrorRead(Method(r.op)))
            ELSE Issue(r, "awaitProtocol"))
  /\ UNCHANGED <<kind, exercised, awaited, session, pwBrowser, pwPage, live, nextId, calls, overlapped>>

\* Variant: a missing element reads as the empty string.
QueryReturn_Empty(r, found) ==
  /\ r.pc = "awaitQuery"
  /\ Settle(r, IF found = "null" THEN Resolve(r, Str(<< >>))
               ELSE [r EXCEPT !.pc = "awaitProtocol", !.protos = @ + 1])
  /\ UNCHANGED <<kind, exercised, awaited, session, pwBrowser, pwPage, live, nextId, calls, overlapped>>

\* The lookup returns: found is "null" (no element) or "element", which is
\* then asked for its text or its HTML.
QueryReturn(r, found) ==
  /\ r.pc = "awaitQuery"
  /\ Settle(r, IF found = "null"
               THEN Reject(r, Err(<<"Element not found: ">> \o ToStr(r.args.selector)))
               ELSE [r EXCEPT !.pc = "awaitProtocol", !.protos = @ + 1])
  /\ UNCHANGED <<kind, exercised, awaited, session, pwBrowser, pwPage, live, nextId, calls, overlapped>>

\* The completion strategies of back and forward, in the order of the code:
\* goBack/goForward waiting for networkidle, the same waiting for load, and
\* evaluate('window.history.back()') or its forward counterpart.
Strategies == <<"networkidle", "load", "script">>

\* Strategy k is attempted (tried and fails are history).  Without a page
\* the two guarded strategies raise inside their try and the third raises
\* outside of any.
Attempt(tk, k) ==
  IF pwPage = 0
  THEN Reject([tk EXCEPT !.tried = @ \o SubSeq(Strategies, k, Len(Strategies)),
                         !.fails = Len(Strategies)],
              TypeErrorRead("evaluate"))
  ELSE [tk EXCEPT !.pc = "awaitNav", !.tried = Append(@, Strategies[k]),
                  !.protos = @ + 1, !.page = pwPage]

\* back and forward resume after `await this._ensureConnected()`.
NavCall(r) ==
  /\ r.pc = "connected"
  /\ r.op \in NavOps
  /\ Settle(r, Attempt(r, 1))
  /\ UNCHANGED <<kind, exercised, awaited, session, pwBrowser, pwPage, live, nextId, calls, overlapped>>

\* Variant: the next strategy is attempted after a success too.
NavReturn_Continues(r) ==
  /\ r.pc = "awaitNav"
  /\ Settle(r, IF Len(r.tried) < Len(Strategies) THEN Attempt(r, Len(r.tried) + 1)
               ELSE Resolve(r, Void))
  /\ UNCHANGED <<kind, exercised, awaited, session, pwBrowser, pwPage, live, nextId, calls, overlapped>>

\* The strategy in flight succeeds: the operation returns.
NavReturn(r) ==
  /\ r.pc = "awaitNav"
  /\ Settle(r, Resolve(r, Void))
  /\ UNCHANGED <<kind, exercised, awaited, session, pwBrowser, pwPage, live, nextId, calls, overlapped>>

\* The strategy in flight raises e: the bare catch moves to the next
\* strategy whatever e is; the last strategy is outside of any try.
NavFail(r, e) ==
  /\ r.pc = "awaitNav"
  /\ LET tk == [r EXCEPT !.fails = @ + 1]
     IN Settle(r, IF Len(r.tried) < Len(Strategies) THEN Attempt(tk, Len(r.tried) + 1)
                  ELSE Reject(tk, e))
  /\ UNCHANGED <<kind, exercised, awaited, session, pwBrowser, pwPage, live, nextId, calls, overlapped>>

Next ==
  \/ \E params \in StartParams : StartSession(params)
  \/ \E r \in InFlight : StartSessionReturn(r)
  \/ \E r \in InFlight, e \in Throwables : StartSessionFail(r, e)
  \/ StopSession
  \/ \E r \in InFlight : StopSessionReturn(r)
  \/ \E r \in InFlight, e \in Throwables : StopSessionFail(r, e)
  \/ \E op \in TierOneOps : TierOne(op)
  \/ \E r \in InFlight : TierOneResume(r)
  \/ \E r \in InFlight, response \in InvokeResponses : InvokeReturn(r, response)
  \/ \E r \in InFlight, e \in Throwables : InvokeFail(r, e)
  \/ \E op \in TierTwoOps : TierTwo(op)
  \/ \E r \in InFlight : EnsureResume(r)
  \/ \E r \in InFlight : ConnectAttach(r)
  \/ \E r \in InFlight, contexts \in {"none", "page", "empty"} : AttachReturn(r, contexts)
  \/ \E r \in InFlight : NewPageReturn(r)
  \/ \E r \in InFlight, e \in Throwables : ConnectFail(r, e)
  \/ \E r \in InFlight : IsVisibleLookup(r)
  \/ \E r \in InFlight, found \in {"null", "visible", "hidden"} : IsVisibleReturn(r, found)
  \/ \E r \in InFlight, e \in Throwables : IsVisibleFail(r, e)
  \/ \E r \in InFlight : CloseReturn(r)
  \/ \E r \in InFlight, e \in Throwables : CloseFail(r, e)

Spec == Init /\ [][Next]_vars

\* Every call awaited, every operation of the class exercised.
InitAwaited ==
  /\ kind \in Kinds
  /\ exercised \in OpsOf(kind)
  /\ awaited = TRUE
  /\ session = NoSession
  /\ pwBrowser = 0
  /\ pwPage = 0
  /\ live = {}
  /\ nextId = 1
  /\ tasks = EmptyBag
  /\ last = IdleTask
  /\ calls = 0
  /\ overlapped = FALSE

NextAwaited ==
  \/ Next
  \/ \E r \in InFlight, response \in NormalizerResponses : InvokeReturn(r, response)
  \/ \E r \in InFlight : ProtocolCall(r)
  \/ \E r \in InFlight, v \in ProtocolValues : ProtocolReturn(r, v)
  \/ \E r \in InFlight, e \in ProtocolThrowables : ProtocolFail(r, e)
  \/ \E r \in InFlight : TextCall(r)
  \/ \E r \in InFlight, found \in {"null", "element"} : QueryReturn(r, found)
  \/ \E r \in InFlight : NavCall(r)
  \/ \E r \in InFlight : NavReturn(r)
  \/ \E r \in InFlight, e \in ProtocolThrowables : NavFail(r, e)
  \/ \E op \in MetadataOps : Metadata(op)
  \/ \E r \in InFlight, response \in MetadataResponses : MetadataReturn(r, response)
  \/ \E r \in InFlight, e \in Throwables : MetadataFail(r, e)
  \/ GenerateWebSocketUrl
  \/ \E r \in InFlight : WebSocketCredentials(r)
  \/ \E r \in InFlight : WebSocketUrlReturn(r)
  \/ \E r \in InFlight, e \in Throwables : WebSocketUrlFail(r, e)

SpecAwaited == InitAwaited /\ [][NextAwaited]_vars

(***************************************************************************)
(* Properties                                                              *)
(***************************************************************************)
\* The calls in flight and the call that completed last.
Recs == InFlight \cup {last}
\* The call made in this step is in flight with record x.
Added(x) == tasks' = tasks (+) SetToBag({x})
BaseKinds == {"CodeInterpreter", "Browser"}
DefaultRequest == [name |-> DEFAULT_SESSION_NAME, timeout |-> DEFAULT_TIMEOUT]

\* C1: when a startSession has resolved and, every call awaited and nothing
\* else called in between, startSession is called again, the second call is
\* rejected with 'Session already active'; it issues no create-session call
\* and the slot still holds the session the first call stored.
C1_SecondStartRejected ==
  [][\A params \in StartParams :
       (StartSession(params) /\ InFlight = {} /\ ~overlapped
          /\ last.op = "startSession" /\ last.outcome = "resolved") =>
         /\ last'.op = "startSession"
         /\ last'.pc = "done"
         /\ last'.outcome = "rejected"
         /\ last'.value = AlreadyActive
         /\ last'.creates = 0
         /\ tasks' = tasks
         /\ session = last.value
         /\ UNCHANGED <<session, live, nextId>>]_vars

\* two awaited startSession calls on a Browser: the second is rejected
C1_Witness ==
  /\ kind = "Browser" /\ ~overlapped
  /\ last.op = "startSession" /\ last.again
  /\ last.outcome = "rejected" /\ last.value = AlreadyActive
  /\ session # NoSession

\* C2: at most one remote session created by the instance is live, in every
\* reachable state and under every interleaving of the calls.
C2_AtMostOneLive == Cardinality(live) <= 1

\* C3: every tier-1 operation that has completed has resolved to a string;
\* none has rejected, whatever its remote calls did.
C3_TierOneNeverRejects ==
  (last.op \in TierOneOps /\ last.pc = "done") =>
    (last.outcome = "resolved" /\ last.value.t = "string")

\* C4: a tier-1 operation called on a client without a session, every call
\* awaited, issues exactly one create-session call, with the default
\* parameters; an invoke call is issued only after that call has returned and
\* carries the id it returned; once the create call has returned, the
\* operation completes with exactly one invoke call and the session that was
\* created is the one stored.
C4_AutoProvision ==
  /\ [][\A op \in TierOneOps :
          (TierOne(op) /\ session = NoSession /\ InFlight = {} /\ ~overlapped) =>
            \E x \in BagToSet(tasks') :
              /\ tasks' = SetToBag({x})
              /\ x.op = op /\ x.pc = "awaitCreate"
              /\ x.creates = 1 /\ x.invokes = 0
              /\ x.req = DefaultRequest /\ x.params = NoParams]_vars
  /\ [](\A r \in Recs :
          (r.op \in TierOneOps /\ r.creates > 0 /\ ~overlapped) =>
            /\ r.creates = 1
            /\ r.req = DefaultRequest
            /\ r.invokes <= 1
            /\ r.invokes = 1 => (r.created # 0 /\ r.sid = r.created)
            /\ r.created # 0 =>
                 /\ r.pc \in {"afterStart", "awaitInvoke", "done"}
                 /\ r.pc \in {"awaitInvoke", "done"} => r.invokes = 1
                 /\ session # NoSession
                 /\ session.sessionId = r.created
                 /\ session.sessionName = DEFAULT_SESSION_NAME)

C4_Witness ==
  /\ last.op \in TierOneOps /\ ~overlapped
  /\ last.pc = "done" /\ last.outcome = "resolved"
  /\ last.creates = 1 /\ last.invokes = 1 /\ last.created = 1
  /\ last.caught = Undefined
  /\ session # NoSession /\ session.sessionId = 1

C6_StopThenStart ==
  /\ [][(StopSession /\ session # NoSession) =>
          \E x \in BagToSet(tasks') :
            /\ Added(x)
            /\ x.op = "stopSession"
            /\ \/ x.pc = "awaitStop" /\ x.stops = 1 /\ x.sid = session.sessionId
               \/ /\ kind = "PlaywrightBrowser" /\ pwBrowser # 0
                  /\ x.pc = "awaitClose" /\ x.stops = 0]_vars
  /\ [](\A r \in Recs : r.op = "stopSession" => r.stops <= 1)
  /\ [][\A r \in InFlight :
          StopSessionReturn(r) =>
            /\ session' = NoSession
            /\ r.sid \notin live'
            /\ last'.op = "stopSession" /\ last'.outcome = "resolved"]_vars
  /\ [][\A params \in StartParams :
          (StartSession(params) /\ session = NoSession) =>
            \E x \in BagToSet(tasks') :
              /\ Added(x)
              /\ x.op = "startSession" /\ x.pc = "awaitCreate" /\ x.creates = 1]_vars
  /\ [][\A r \in InFlight :
          (StartSessionReturn(r) /\ r.op = "startSession") =>
            /\ last'.outcome = "resolved"
            /\ last'.value = session'
            /\ session'.sessionId = nextId
            /\ nextId \notin live /\ nextId \in live'
            /\ last.op = "stopSession" => last.sid # nextId]_vars

\* start, stop, start on a Browser: the second session is stored
C6_Witness ==
  /\ kind = "Browser" /\ ~overlapped /\ calls = 3
  /\ last.op = "startSession" /\ last.outcome = "resolved"
  /\ last.created = 2
  /\ session = last.value
  /\ live = {2}

\* C7: when the invoke call of a tier-1 operation fails with an Error whose
\* message is m, the operation resolves to 'Error: ' followed by m and the
\* session slot is left as it was.
C7_InvokeFailureRendered ==
  [][\A r \in InFlight, m \in Messages :
       InvokeFail(r, Err(m)) =>
         /\ last'.op = r.op
         /\ last'.pc = "done"
         /\ last'.outcome = "resolved"
         /\ last'.value = Str(<<"Error: ">> \o m)
         /\ session' = session]_vars

C7_Witness ==
  /\ last.op \in TierOneOps /\ last.pc = "done" /\ last.invokes = 1
  /\ last.caught = Err(<<"Service unavailable">>)
  /\ last.outcome = "resolved"
  /\ last.value = Str(<<"Error: ", "Service unavailable">>)
  /\ session # NoSession

\* The same response with every isError flag cleared.
Unflag(response) ==
  [hasStream |-> response.hasStream,
   events |-> [i \in 1..Len(response.events) |->
                 [response.events[i] EXCEPT !.isError = FALSE]],
   content |-> response.content,
   error |-> response.error,
   isError |-> FALSE]

\* C8: a tier-1 operation whose invoke call returned a response flagged
\* isError has resolved, and to the value it resolves to for the same
\* response without the flag; plain string content is returned verbatim.
C8_BusinessErrorInBand ==
  (last.op \in TierOneOps /\ last.response # Undefined /\ last.response.isError) =>
    LET unflagged == _parseInvokeResponse(Unflag(last.response))
    IN /\ last.pc = "done"
       /\ last.outcome = "resolved"
       /\ ~unflagged.thrown
       /\ last.value = unflagged.value
       /\ (~last.response.hasStream /\ last.response.content.t = "string") =>
             last.value = last.response.content

C8_Witness ==
  /\ last.op = "readFiles" /\ last.pc = "done"
  /\ last.response # Undefined /\ last.response.isError
  /\ last.response.content = Str(<<"File not found">>)
  /\ last.outcome = "resolved"
  /\ last.value = Str(<<"File not found">>)

\* C9: a startSession called while a startSession is awaiting its
\* create-session call sees the slot empty and issues a create-session call
\* of its own; when the two calls are the only calls made and the second of
\* them has returned, the two sessions they created are live together.
C9_ConcurrentStartsBothCreate ==
  /\ [][\A params \in StartParams :
          (StartSession(params)
             /\ \E u \in InFlight : u.op = "startSession" /\ u.pc = "awaitCreate"
             /\ session = NoSession) =>
            \E x \in BagToSet(tasks') :
              /\ Added(x)
              /\ x.op = "startSession" /\ x.pc = "awaitCreate" /\ x.creates = 1]_vars
  /\ [][\A r \in InFlight :
          (StartSessionReturn(r) /\ r.op = "startSession" /\ calls = 2
             /\ last.op = "startSession" /\ last.outcome = "resolved") =>
            /\ last'.outcome = "resolved"
            /\ last'.created # last.created
            /\ live' = {last.created, last'.created}
            /\ Cardinality(live') = 2]_vars

\* two startSession calls on a Browser, neither awaited: two live sessions
C9_Witness ==
  /\ kind = "Browser" /\ calls = 2 /\ overlapped /\ InFlight = {}
  /\ last.op = "startSession" /\ last.outcome = "resolved"
  /\ last.created = 2
  /\ live = {1, 2}

\* C10: every isVisible call that has completed has resolved to a boolean;
\* none has rejected, whatever was raised while it ran.
C10_IsVisibleNeverRejects ==
  (last.op = "isVisible" /\ last.pc = "done") =>
    (last.outcome = "resolved" /\ last.value.t = "boolean")

\* C11: back and forward attempt their strategies in the order networkidle,
\* load, script: the strategies attempted are a prefix of that order, a
\* strategy is in flight or has succeeded only when every earlier one has
\* failed, and when a strategy succeeds the operation returns without
\* attempting another.
C11_FallbackOrder ==
  /\ [](\A r \in Recs :
          r.op \in NavOps =>
            /\ Len(r.tried) <= Len(Strategies)
            /\ r.tried = SubSeq(Strategies, 1, Len(r.tried))
            /\ r.protos = Len(r.tried)
            /\ r.pc = "awaitNav" => Len(r.tried) = r.fails + 1
            /\ (r.pc = "done" /\ r.outcome = "resolved") => Len(r.tried) = r.fails + 1
            /\ (r.pc = "done" /\ r.outcome = "rejected") =>
                 \/ r.tried = << >> /\ r.fails = 0
                 \/ r.tried = Strategies /\ r.fails = Len(Strategies))
  /\ [][\A r \in InFlight :
          NavReturn(r) =>
            /\ last'.op = r.op
            /\ last'.outcome = "resolved"
            /\ last'.tried = r.tried
            /\ last'.protos = r.protos]_vars

\* back() whose first two strategies failed and whose third succeeded
C11_Witness ==
  /\ last.op = "back" /\ last.pc = "done" /\ last.outcome = "resolved"
  /\ last.tried = Strategies /\ last.fails = 2

IsTimeout(e) == e.t = "Error" /\ "class" \in DOMAIN e /\ e.class = "TimeoutError"

\* C12: when a strategy of back or forward raises and the next strategy is
\* attempted, what was raised is a timeout-class error.
C12_AdvanceOnTimeoutOnly ==
  [][\A r \in InFlight, e \in ProtocolThrowables :
       (NavFail(r, e) /\ \E x \in BagToSet(tasks') : Len(x.tried) > Len(r.tried)) =>
         IsTimeout(e)]_vars

\* The text fragments a content value carries, and whether the string s
\* contains the string t.
Texts(c) ==
  IF c.t = "string" THEN {c.s}
  ELSE {Get(c.items[i], "text").s : i \in 1..Len(c.items)}
Contains(s, t) == \E i \in 1..(Len(s) - Len(t) + 1) : SubSeq(s, i, i + Len(t) - 1) = t

\* two events carrying distinct text, then an event carrying an error object
TwoTextsThenError(response) ==
  /\ response.hasStream
  /\ Len(response.events) = 3
  /\ \A i \in {1, 2} : Truthy(response.events[i].content) /\ ~Truthy(response.events[i].error)
  /\ response.events[1].content # response.events[2].content
  /\ ~Truthy(response.events[3].content) /\ Truthy(response.events[3].error)

\* C13: a tier-1 operation whose invoke call returned a stream of three events,
\* two carrying distinct text and the third an error object, returns the
\* third event's error message (the fallback 'Unknown error' when the message
\* is empty), and what it returns contains neither of the earlier texts.
C13_LastWriteWins ==
  (last.op \in TierOneOps /\ last.response # Undefined /\ TwoTextsThenError(last.response)) =>
    LET events == last.response.events
        message == Get(events[3].error, "message")
    IN /\ last.outcome = "resolved"
       /\ last.value = _parseInvokeResponse(last.response).value
       /\ last.value = IF Truthy(message) THEN message ELSE Str(<<"Unknown error">>)
       /\ \A i \in {1, 2} : \A t \in Texts(events[i].content) : ~Contains(last.value.s, t)

C13_Witness ==
  /\ last.op = "executeCode" /\ last.pc = "done"
  /\ last.response \in ThreeEventStreams
  /\ last.response.events[1].content.t = "array"
  /\ last.value = Str(<<"Execution failed">>)

\* C14: the normaliser produces a string for every response and never raises.
C14_NormalizerTotal ==
  (last.op \in TierOneOps /\ last.response # Undefined) =>
    LET parsed == _parseInvokeResponse(last.response)
    IN ~parsed.thrown /\ parsed.value.t = "string"

\* C15: for every envelope E, the response that consists of E normalises to
\* the same string as the stream whose only event is E.
C15_EnvelopeAsStream ==
  \A E \in Envelopes :
    (last.op \in TierOneOps /\ last.response \in {AsResponse(E), AsStream(E)}) =>
      /\ _parseInvokeResponse(AsResponse(E)) = _parseInvokeResponse(AsStream(E))
      /\ ~_parseInvokeResponse(last.response).thrown =>
           last.value = _parseInvokeResponse(AsStream(E)).value

\* C16: when the protocol call of navigate, click, type, getText, getHtml,
\* screenshot, evaluate, getCookies, setCookies, pressKey, waitForSelector,
\* fill or refresh raises, or establishing its connection raises, the
\* operation is rejected with what was raised.
C16_ErrorsPropagate ==
  [][\A r \in InFlight, e \in ProtocolThrowables :
       (r.op \in DirectOps \cup TextOps /\ (ProtocolFail(r, e) \/ ConnectFail(r, e))) =>
         /\ last'.op = r.op
         /\ last'.pc = "done"
         /\ last'.outcome = "rejected"
         /\ last'.value = e
         /\ last'.caught = Undefined]_vars

\* navigate whose page.goto raised a timeout
C16_Witness ==
  /\ last.op = "navigate" /\ last.pc = "done" /\ last.outcome = "rejected"
  /\ last.protos = 1 /\ last.value = TimeoutError

\* C17: once stopSession of PlaywrightBrowser has returned and the slot is
\* empty, neither a browser handle nor a page handle is cached.
C17_StopClearsConnection ==
  (/\ kind = "PlaywrightBrowser"
   /\ InFlight = {}
   /\ last.op = "stopSession" /\ last.pc = "done" /\ last.outcome = "resolved"
   /\ session = NoSession) =>
    pwBrowser = 0 /\ pwPage = 0

\* The step takes the call with record r to record x by issuing a protocol call.
Issued(r, x) ==
  /\ tasks' = (tasks (-) SetToBag({r})) (+) SetToBag({x})
  /\ x.op = r.op
  /\ x.protos = r.protos + 1

\* C18: a tier-2 operation that had to create the session has connected
\* before it issues a protocol call (create session, connect, protocol call),
\* and whenever a tier-2 operation issues a protocol call the slot holds a
\* session and a browser handle and a page handle are cached.
C18_ProtocolAfterConnect ==
  /\ [](\A r \in Recs :
          (r.op \in TierTwoOps /\ r.creates > 0 /\ r.protos > 0) => r.connects > 0)
  /\ [][\A r \in InFlight : \A x \in BagToSet(tasks') :
          (r.op \in TierTwoOps /\ Issued(r, x)) =>
            session # NoSession /\ pwBrowser # 0 /\ pwPage # 0]_vars

\* C19: when the lookup of the selector finds no element, getText and getHtml
\* are rejected with 'Element not found: <selector>', whereas isVisible
\* resolves with false.
C19_ElementNotFound ==
  [][\A r \in InFlight :
       /\ (r.op \in TextOps /\ QueryReturn(r, "null")) =>
            /\ last'.op = r.op
            /\ last'.outcome = "rejected"
            /\ last'.value = Err(<<"Element not found: ">> \o r.args.selector.s)
            /\ last'.protos = 1
       /\ (r.op = "isVisible" /\ IsVisibleReturn(r, "null")) =>
            /\ last'.op = r.op
            /\ last'.outcome = "resolved"
            /\ last'.value = Bool(FALSE)
            /\ last'.caught = Undefined]_vars

\* getText({ selector: '#title' }) on a page without such an element
C19_Witness ==
  /\ last.op = "getText" /\ last.pc = "done" /\ last.outcome = "rejected"
  /\ last.args.selector = Str(<<"#title">>)
  /\ last.value = Err(<<"Element not found: ", "#title">>)

\* The step is a call of the session-metadata operation op with params, made
\* with no explicit session id on a client whose slot is empty.
UntargetedCall(op, params) ==
  /\ Metadata(op)
  /\ Called(MetadataBegin(NewTask(op), params))
  /\ Nullish(params.sessionId)
  /\ session = NoSession

\* C20 as claimed: getSession, listSessions and updateBrowserStream called
\* with no explicit session id on a client with no session are rejected with
\* a configuration error and issue no remote call.
C20_UntargetedRejected ==
  [][\A op \in MetadataOps, params \in MetadataParams :
       UntargetedCall(op, params) =>
         /\ tasks' = tasks
         /\ last'.op = op
         /\ last'.outcome = "rejected"
         /\ last'.value \in {IdsRequired, BrowserIdRequired}
         /\ last'.sends = 0]_vars

\* C20 amended: getSession and updateBrowserStream called with no explicit
\* session id on a client with no session are rejected with the configuration
\* error and issue no remote call; listSessions, which resolves no session
\* id, issues its remote call whenever a browser id is available, and is
\* rejected with a configuration error, issuing no call, only when it is not.
C20_UntargetedGetAndUpdateRejected ==
  [][\A op \in MetadataOps, params \in MetadataParams :
       UntargetedCall(op, params) =>
         IF op = "listSessions" /\ Truthy(Coalesce(params.browserId, identifier))
         THEN \E x \in BagToSet(tasks') :
                /\ Added(x)
                /\ x.op = op /\ x.pc = "awaitMetadata" /\ x.sends = 1
                /\ x.req.sessionId = Undefined
         ELSE /\ tasks' = tasks
              /\ last'.op = op
              /\ last'.outcome = "rejected"
              /\ last'.value = IF op = "listSessions" THEN BrowserIdRequired ELSE IdsRequired
              /\ last'.sends = 0]_vars

\* getSession() as the first call on a new client
C20_Witness ==
  /\ calls = 1 /\ session = NoSession
  /\ last.op = "getSession" /\ last.pc = "done" /\ last.outcome = "rejected"
  /\ last.value = IdsRequired /\ last.sends = 0

\* C21: no call of startSession, stopSession or a tier-1 operation issues a
\* create-session, stop-session or invoke call more than once, and the step
\* in which such a remote call fails ends the call without another remote
\* call being issued.
C21_NoRetries ==
  /\ [](\A r \in Recs :
          r.op \in {"startSession", "stopSession"} \cup TierOneOps =>
            r.creates <= 1 /\ r.stops <= 1 /\ r.invokes <= 1)
  /\ [][\A r \in InFlight, e \in Throwables :
          (/\ r.op \in {"startSession", "stopSession"} \cup TierOneOps
           /\ StartSessionFail(r, e) \/ StopSessionFail(r, e) \/ InvokeFail(r, e)) =>
            /\ tasks' = tasks (-) SetToBag({r})
            /\ last'.op = r.op /\ last'.pc = "done"
            /\ last'.creates = r.creates
            /\ last'.stops = r.stops
            /\ last'.invokes = r.invokes]_vars

\* executeCode that created the session and whose invoke call failed
C21_Witness ==
  /\ last.op = "executeCode" /\ last.pc = "done"
  /\ last.creates = 1 /\ last.invokes = 1
  /\ last.caught = Err(<<"Service unavailable">>)

\* C22: with every call awaited, a tier-2 operation called while the slot
\* holds a session and a browser handle and a page handle are cached goes on
\* to its protocol call without a connect or a create-session call, and a
\* tier-2 operation called right after a call of the same operation resolved
\* never issues a connect or a create-session call.
C22_ConnectionReused ==
  /\ [](\A r \in Recs :
          (r.op \in TierTwoOps /\ r.again) => r.creates = 0 /\ r.connects = 0)
  /\ [][\A op \in TierTwoOps :
          (TierTwo(op) /\ session # NoSession /\ pwBrowser # 0 /\ pwPage # 0) =>
            /\ nextId' = nextId
            /\ \E x \in BagToSet(tasks') :
                 /\ Added(x)
                 /\ x.op = op /\ x.pc = "connected"
                 /\ x.creates = 0 /\ x.connects = 0]_vars

\* the third of three click calls, the first of which connected
C22_Witness ==
  /\ calls = 3
  /\ last.op = "click" /\ last.again /\ last.pc = "done" /\ last.outcome = "resolved"
  /\ last.protos = 1 /\ last.connects = 0
  /\ session # NoSession /\ pwPage = session.sessionId

\* What the loop has accumulated after the first k events of a stream.
Accumulated(events, k) ==
  StreamFold([thrown |-> FALSE, value |-> Str(<< >>)], SubSeq(events, 1, k), 1)

\* C23: after a stream event that carries an error object the accumulated
\* result is that error's message, or 'Unknown error' when the message is
\* empty or missing, whatever the same event's content and the earlier events
\* contributed; when that event is the last one this is what the operation
\* returns.
C23_ErrorOverrides ==
  (last.op \in TierOneOps /\ last.response # Undefined /\ last.response.hasStream) =>
    LET events == last.response.events IN
    \A k \in 1..Len(events) :
      (Truthy(events[k].error) /\ ~Accumulated(events, k).thrown) =>
        LET message == Get(events[k].error, "message")
            expected == IF Truthy(message) THEN message ELSE Str(<<"Unknown error">>)
        IN /\ Accumulated(events, k).value = expected
           /\ k = Len(events) => last.outcome = "resolved" /\ last.value = expected

\* text, then an event with both content and an error without a message
C23_Witness ==
  /\ last.op = "executeCode" /\ last.pc = "done"
  /\ last.response \in TwoEventStreams
  /\ last.response.events[2].content = Str(<<"partial">>)
  /\ Get(last.response.events[2].error, "message") = Undefined
  /\ Truthy(last.response.events[2].error)
  /\ last.value = Str(<<"Unknown error">>)

\* The empty string, the empty array, or no content at all.
IsEmptyContent(c) == c \in EmptyContents

\* C24: in a stream none of whose events carries an error, an event whose
\* content is empty or absent leaves the accumulated result as it was, so
\* the operation returns the normalisation of the last event whose content
\* is not empty.
C24_LastNonEmptyWins ==
  (/\ last.op \in TierOneOps /\ last.response # Undefined /\ last.response.hasStream
   /\ \A i \in 1..Len(last.response.events) : ~Truthy(last.response.events[i].error)) =>
    LET events == last.response.events IN
    \A k \in 1..Len(events) :
      (/\ ~IsEmptyContent(events[k].content)
       /\ \A j \in (k + 1)..Len(events) : IsEmptyContent(events[j].content)
       /\ ~NormalizeContent(events[k].content).thrown) =>
        last.value = NormalizeContent(events[k].content).value

\* The content of a response that consists of one envelope.
SoleContent(response) ==
  IF response.hasStream
  THEN IF Len(response.events) = 1 /\ ~Truthy(response.events[1].error)
       THEN response.events[1].content ELSE Undefined
  ELSE response.content

\* The present ones of name, description and MIME type, in that order,
\* joined by ' - ', then a space and the URI in parentheses.
RECURSIVE Dashed(_)
Dashed(parts) ==
  IF parts = << >> THEN << >>
  ELSE IF Len(parts) = 1 THEN parts[1].s
  ELSE parts[1].s \o <<" - ">> \o Dashed(Tail(parts))
Present(v) == v # Undefined /\ v # JsNull /\ v # Str(<< >>)
Summary(item) ==
  Dashed(SelectSeq(<<Get(item, "name"), Get(item, "description"), Get(item, "mimeType")>>,
                   Present))
  \o <<" (">> \o Get(item, "uri").s \o <<")">>

\* The string one typed item stands for.
Rendered(item) ==
  LET type == Get(item, "type")
      resource == Get(item, "resource")
  IN CASE type = Str(<<"text">>) -> Get(item, "text").s
       [] type = Str(<<"resource">>) /\ resource.t = "object" ->
            IF Present(Get(resource, "text")) THEN Get(resource, "text").s
            ELSE JSONStringify(resource)
       [] type = Str(<<"resource_link">>) -> Summary(item)
       [] OTHER -> JSONStringify(item)
RECURSIVE Lines(_, _)
Lines(items, i) ==
  IF i > Len(items) THEN << >>
  ELSE (IF i > 1 THEN <<"\n">> ELSE << >>) \o Rendered(items[i]) \o Lines(items, i + 1)

C26_LinkSummary ==
  \A item \in LinkItems :
    (last.op \in TierOneOps /\ last.response # Undefined
     /\ SoleContent(last.response) = Arr(<<TextItem(<<"listing">>), item>>)) =>
      last.value = Str(<<"listing", "\n">> \o Summary(item))

\* a link with a name and a MIME type but no description
C26_Witness ==
  /\ last.op = "listFiles" /\ last.pc = "done" /\ last.response # Undefined
  /\ last.value = Str(<<"listing", "\n", "a.txt", " - ", "text/plain",
                        " (", "file:///a.txt", ")">>)

\* p ?? d, as the claim states the substitution
OrDefault(p, d) == IF p = Undefined THEN d ELSE p

\* C27: what executeCode, listFiles, navigate and screenshot pass to their one
\* remote or protocol call is the supplied parameter, or 'python', '.',
\* 'domcontentloaded', fullPage false and type 'png' where it is unset, and
\* screenshot returns the binary result unless encoding is 'base64', when it
\* returns a string.
C27_Defaults ==
  \A r \in Recs :
    /\ (r.op \in {"executeCode", "listFiles", "navigate", "screenshot"}
        /\ r.invokes + r.protos > 0) =>
         /\ r.invokes + r.protos = 1
         /\ r.sent =
              CASE r.op = "executeCode" ->
                     [language |-> OrDefault(r.args.language, Str(<<"python">>))]
                [] r.op = "listFiles" -> [path |-> OrDefault(r.args.path, Str(<<".">>))]
                [] r.op = "navigate" ->
                     [waitUntil |-> OrDefault(r.args.waitUntil, Str(<<"domcontentloaded">>))]
                [] r.op = "screenshot" ->
                     [fullPage |-> OrDefault(r.args.fullPage, Bool(FALSE)),
                      type |-> OrDefault(r.args.type, Str(<<"png">>))]
    /\ (r.op = "screenshot" /\ r.pc = "done" /\ r.outcome = "resolved") =>
         IF r.args.encoding = Str(<<"base64">>)
         THEN r.value = Str(<<"base64(", "png", ")">>)
         ELSE r.value = Buffer(<<"png">>)

\* screenshot() without parameters
C27_Witness ==
  /\ last.op = "screenshot" /\ last.pc = "done" /\ last.outcome = "resolved"
  /\ last.args = NoArgs
  /\ last.sent = [fullPage |-> Bool(FALSE), type |-> Str(<<"png">>)]
  /\ last.value = Buffer(<<"png">>)

\* C28: the step in which the create-session call of a startSession returns
\* resolves the call, which has issued that one create-session call, with
\* the identifier of the client, the supplied name or 'default', and the
\* supplied timeout or 3600; the record it returns is the record now in the
\* slot, its session id is the one the service has just assigned, and for
\* CodeInterpreter it carries the description that was supplied (the
\* startSession of Browser takes no description).
C28_StartSessionRecord ==
  [][\A r \in InFlight :
       (r.op = "startSession" /\ StartSessionReturn(r)) =>
         /\ last'.op = "startSession" /\ last'.outcome = "resolved"
         /\ last'.creates = 1
         /\ last'.target = IF kind = "CodeInterpreter" THEN Str(<<"aws.codeinterpreter.v1">>)
                           ELSE Str(<<"aws.browser.v1">>)
         /\ last'.req.name = OrDefault(r.params.sessionName, Str(<<"default">>))
         /\ last'.req.timeout = OrDefault(r.params.timeout, Num(3600))
         /\ last'.value = session'
         /\ session'.sessionName = last'.req.name
         /\ session'.sessionId \in live' \ live
         /\ (kind = "CodeInterpreter" /\ r.params.description # Undefined) =>
              session'.description = r.params.description]_vars

\* startSession({ sessionName: 'analysis', description: 'customer data', timeout: 1800 })
C28_Witness ==
  /\ kind = "CodeInterpreter"
  /\ last.op = "startSession" /\ last.pc = "done" /\ last.outcome = "resolved"
  /\ last.req = [name |-> Str(<<"analysis">>), timeout |-> Num(1800)]
  /\ last.value = session
  /\ session.description = Str(<<"customer data">>)

\* The call completed last is a stopSession whose stop-session call failed.
StopFailedLast ==
  /\ InFlight = {}
  /\ last.op = "stopSession" /\ last.pc = "done" /\ last.outcome = "rejected"
  /\ last.stops = 1

\* C29: the step in which the stop-session call of a stopSession fails
\* rejects the call with that error and leaves in the slot the session the
\* call was stopping; a startSession that follows is rejected with
\* 'Session already active' without a create-session call, and a stopSession
\* that follows issues the stop-session call for the same session id (a
\* PlaywrightBrowser with a cached browser handle closes it first).
C29_StopFailureKeepsSession ==
  /\ [][\A r \in InFlight, e \in Throwables :
          (r.op = "stopSession" /\ StopSessionFail(r, e)) =>
            /\ last'.op = "stopSession" /\ last'.outcome = "rejected" /\ last'.value = e
            /\ session' = session
            /\ session # NoSession /\ session.sessionId = r.sid]_vars
  /\ [][\A params \in StartParams :
          (StopFailedLast /\ StartSession(params)) =>
            /\ tasks' = tasks
            /\ last'.op = "startSession" /\ last'.outcome = "rejected"
            /\ last'.value = AlreadyActive /\ last'.creates = 0]_vars
  /\ [][(StopFailedLast /\ StopSession) =>
          \E x \in BagToSet(tasks') :
            /\ Added(x)
            /\ x.op = "stopSession"
            /\ \/ x.pc = "awaitStop" /\ x.stops = 1 /\ x.sid = last.sid
               \/ kind = "PlaywrightBrowser" /\ pwBrowser # 0 /\ x.pc = "awaitClose"]_vars
  /\ [][\A r \in InFlight, e \in Throwables :
          (/\ r.op = "stopSession"
           /\ last.op = "stopSession" /\ last.outcome = "rejected" /\ last.stops = 1
           /\ CloseReturn(r) \/ CloseFail(r, e)) =>
            \E x \in BagToSet(tasks') :
              x.op = "stopSession" /\ x.pc = "awaitStop" /\ x.stops = 1 /\ x.sid = last.sid]_vars

\* a stopSession in flight for the session whose stop failed just before
C29_Witness ==
  /\ last.op = "stopSession" /\ last.pc = "done" /\ last.outcome = "rejected"
  /\ last.value = Err(<<"Service unavailable">>)
  /\ \E r \in InFlight :
       r.op = "stopSession" /\ r.pc = "awaitStop" /\ r.sid = last.sid
  /\ session # NoSession /\ session.sessionId = last.sid

\* The call completed last is a startSession whose create-session call failed.
StartFailedLast ==
  /\ InFlight = {}
  /\ last.op = "startSession" /\ last.pc = "done" /\ last.outcome = "rejected"
  /\ last.creates = 1

\* C30: the step in which the create-session call of a startSession fails
\* rejects the call with that error and leaves the slot empty, and a
\* startSession that follows issues a new create-session call.
C30_StartFailureKeepsSlotEmpty ==
  /\ [][\A r \in InFlight, e \in Throwables :
          (r.op = "startSession" /\ StartSessionFail(r, e)) =>
            /\ last'.op = "startSession" /\ last'.outcome = "rejected" /\ last'.value = e
            /\ session' = NoSession
            /\ live' = live]_vars
  /\ [][\A params \in StartParams :
          (StartFailedLast /\ StartSession(params)) =>
            \E x \in BagToSet(tasks') :
              /\ Added(x)
              /\ x.op = "startSession" /\ x.pc = "awaitCreate" /\ x.creates = 1]_vars

\* a startSession in flight after one whose create-session call failed
C30_Witness ==
  /\ last.op = "startSession" /\ last.pc = "done" /\ last.outcome = "rejected"
  /\ last.value = Err(<<"Service unavailable">>)
  /\ session = NoSession
  /\ \E r \in InFlight : r.op = "startSession" /\ r.pc = "awaitCreate"

\* C31: the step in which the create-session call of a tier-1 operation
\* called without a session fails ends the operation, which has issued no
\* invoke call, and leaves the slot empty.
C31_FailedAutoStartNoInvoke ==
  [][\A r \in InFlight, e \in Throwables :
       (r.op \in TierOneOps /\ StartSessionFail(r, e)) =>
         /\ tasks' = tasks (-) SetToBag({r})
         /\ last'.op = r.op /\ last'.pc = "done"
         /\ last'.creates = 1 /\ last'.invokes = 0
         /\ session' = NoSession
         /\ live' = live]_vars

\* executeCode on a new client whose create-session call failed
C31_Witness ==
  /\ calls = 1
  /\ last.op = "executeCode" /\ last.pc = "done"
  /\ last.creates = 1 /\ last.invokes = 0
  /\ last.value = Err(<<"Service unavailable">>)
  /\ session = NoSession

\* The remote session id is live, is not the one in the slot, and no
\* stop-session call for it is in flight.
Orphaned(id) ==
  /\ id \in live
  /\ session = NoSession \/ session.sessionId # id
  /\ \A r \in InFlight : ~(r.pc = "awaitStop" /\ r.sid = id)

\* C32: a stop-session call is issued only for the session id the slot holds
\* when it is issued; a create-session call that returns writes its session
\* to the slot whatever the slot held, so that of two racing creations the
\* slot keeps the one that completed last while the session it replaces stays
\* live; and a live session that is neither in the slot nor being stopped
\* stays so whatever the client does.
C32_RaceOrphansSession ==
  /\ [][\A x \in BagToSet(tasks') :
          (x.pc = "awaitStop" /\ x \notin InFlight) =>
            session # NoSession /\ x.sid = session.sessionId /\ session' = session]_vars
  /\ [][\A r \in InFlight :
          StartSessionReturn(r) =>
            /\ session'.sessionId = nextId /\ nextId \notin live
            /\ live' = live \cup {nextId}
            /\ \A id \in live :
                 (session # NoSession /\ id = session.sessionId) =>
                   \/ Orphaned(id)'
                   \/ \E u \in InFlight : u.pc = "awaitStop" /\ u.sid = id]_vars
  /\ [][\A id \in live : Orphaned(id) => Orphaned(id)']_vars

\* two creations raced, the session kept was stopped, the other is still live
C32_Witness ==
  /\ InFlight = {}
  /\ last.op = "stopSession" /\ last.pc = "done" /\ last.outcome = "resolved"
  /\ last.sid = 2
  /\ session = NoSession
  /\ live = {1}

\* A startSession call is waiting for its create-session call.
Starting(r) == r.op = "startSession" /\ r.pc = "awaitCreate"

\* C33: on a client with no remote session and no automation connection, a
\* stopSession called while a
\* startSession is waiting for its create-session call finds the slot empty
\* and resolves at once without a stop-session or close call, the start still
\* in flight; and when the create-session call of a startSession returns
\* after a stopSession resolved, the slot holds the new session, which is
\* live.
C33_StopDuringStartIsNoOp ==
  /\ [][((\E r \in InFlight : Starting(r)) /\ live = {} /\ pwBrowser = 0
          /\ StopSession) =>
          /\ session = NoSession /\ session' = NoSession
          /\ last'.op = "stopSession" /\ last'.pc = "done"
          /\ last'.outcome = "resolved" /\ last'.value = Void
          /\ last'.stops = 0 /\ last'.closes = 0
          /\ tasks' = tasks /\ live' = live]_vars
  /\ [][\A r \in InFlight :
          (/\ Starting(r)
           /\ last.op = "stopSession" /\ last.outcome = "resolved"
           /\ StartSessionReturn(r)) =>
            /\ session' # NoSession /\ session'.sessionId = nextId
            /\ session'.sessionId \in live'
            /\ last'.op = "startSession" /\ last'.outcome = "resolved"]_vars

\* startSession, then stopSession while the create was in flight: both
\* resolved and the client holds session 1
C33_Witness ==
  /\ kind = "Browser"
  /\ calls = 2 /\ overlapped /\ InFlight = {}
  /\ last.op = "startSession" /\ last.outcome = "resolved"
  /\ session # NoSession /\ session.sessionId = 1
  /\ live = {1}

\* The event carries content that is not empty, or an error.
Decisive(event) == ~IsEmptyContent(event.content) \/ Truthy(event.error)

\* C34: the result of a tier-1 operation whose response is a stream is
\* determined by the last event that carries non-empty content or an error:
\* it is that event's error message ('Unknown error' when the message is
\* empty or missing) when the event carries an error, and the normalisation
\* of its content otherwise, also when an earlier event carried an error.
C34_ErrorNotSticky ==
  (/\ last.op \in TierOneOps /\ last.response # Undefined /\ last.response.hasStream
   /\ ~Accumulated(last.response.events, Len(last.response.events)).thrown) =>
    LET events == last.response.events IN
    \A k \in 1..Len(events) :
      (Decisive(events[k]) /\ \A j \in (k + 1)..Len(events) : ~Decisive(events[j])) =>
        LET message == Get(events[k].error, "message")
        IN last.value =
             IF Truthy(events[k].error)
             THEN IF Truthy(message) THEN message ELSE Str(<<"Unknown error">>)
             ELSE NormalizeContent(events[k].content).value

\* C35: stopSession of a PlaywrightBrowser with a cached connection issues
\* the close of the connection first and no stop-session call with it; when
\* the close fails the stop-session call is issued all the same, for the
\* session in the slot (or the call resolves at once when the slot is
\* empty); and when a stop-session call issued after a failed close returns,
\* the slot is cleared and stopSession resolves.
C35_CloseFailureSwallowed ==
  /\ [][(kind = "PlaywrightBrowser" /\ pwBrowser # 0 /\ StopSession) =>
          \E x \in BagToSet(tasks') :
            /\ Added(x)
            /\ x.op = "stopSession" /\ x.pc = "awaitClose"
            /\ x.closes = 1 /\ x.stops = 0]_vars
  /\ [](\A r \in InFlight : (r.pc = "awaitStop" /\ pwBrowser # 0) => r.closes = 1)
  /\ [][\A r \in InFlight, e \in Throwables :
          CloseFail(r, e) =>
            /\ session' = session
            /\ IF session = NoSession
               THEN /\ tasks' = tasks (-) SetToBag({r})
                    /\ last'.outcome = "resolved" /\ last'.value = Void
                    /\ last'.stops = 0
               ELSE \E x \in BagToSet(tasks') :
                      /\ tasks' = (tasks (-) SetToBag({r})) (+) SetToBag({x})
                      /\ x.pc = "awaitStop" /\ x.stops = 1 /\ x.closes = 1
                      /\ x.sid = session.sessionId /\ x.caught = e]_vars
  /\ [][\A r \in InFlight :
          (r.caught # Undefined /\ StopSessionReturn(r)) =>
            /\ session' = NoSession
            /\ live' = live \ {r.sid}
            /\ last'.op = "stopSession" /\ last'.outcome = "resolved"
            /\ last'.value = Void]_vars

\* close() raised, the session was stopped all the same
C35_Witness ==
  /\ kind = "PlaywrightBrowser"
  /\ last.op = "stopSession" /\ last.pc = "done" /\ last.outcome = "resolved"
  /\ last.closes = 1 /\ last.stops = 1 /\ last.sid = 1
  /\ last.caught = Err(<<"Service unavailable">>)
  /\ session = NoSession /\ live = {}

\* The call that completed last is a tier-2 operation that rejected after it
\* had attached, or tried to, and before any protocol call.
ConnectFailedLast ==
  /\ last.op \in TierTwoOps /\ last.outcome = "rejected"
  /\ last.connects = 1 /\ last.protos = 0

\* C36: the step in which the attach or the opening of a page fails, or the
\* attached browser exposes no context, rejects the tier-2 operation, which
\* has issued no protocol call, and leaves the session in the slot and live
\* and the connection incomplete; and the next tier-2 operation called while
\* that session is in the slot creates no session and starts connecting.
C36_ConnectFailureKeepsSession ==
  /\ [][\A r \in InFlight :
          (/\ r.op \in TierTwoOps
           /\ \/ AttachReturn(r, "none")
              \/ \E e \in Throwables :
                   r.pc \in {"attaching", "newPage"} /\ ConnectFail(r, e)) =>
            /\ tasks' = tasks (-) SetToBag({r})
            /\ last'.op = r.op /\ last'.outcome = "rejected"
            /\ last'.protos = 0 /\ last'.connects = 1
            /\ session # NoSession /\ session' = session
            /\ session.sessionId \in live /\ live' = live
            /\ pwBrowser' = 0 \/ pwPage' = 0]_vars
  /\ [][(ConnectFailedLast /\ session # NoSession /\ TierTwo(exercised)) =>
          \E x \in BagToSet(tasks') :
            /\ Added(x)
            /\ x.op = exercised /\ x.pc = "importing"
            /\ x.creates = 0 /\ x.connects = 0
            /\ session' = session /\ live' = live]_vars

\* the browser of session 1 exposed no context and the operation rejected;
\* the next operation is connecting, no session created
C36_Witness ==
  /\ calls = 2
  /\ last.op \in TierTwoOps /\ last.outcome = "rejected"
  /\ last.value = Err(<<"No browser contexts available">>)
  /\ last.creates = 1 /\ last.connects = 1 /\ last.protos = 0
  /\ session # NoSession /\ session.sessionId = 1 /\ live = {1}
  /\ \E x \in InFlight : x.op = last.op /\ x.pc = "importing" /\ x.creates = 0

\* C37: the steps of getSession, listSessions, updateBrowserStream and
\* generateWebSocketUrl leave the slot and the remote sessions as they are,
\* and none of these operations issues a create-session or a stop-session
\* call; getSession and updateBrowserStream called with an explicit session
\* id on a client that holds a session send that id, not the slot's; and
\* generateWebSocketUrl is rejected with the 'No active session' error when
\* the slot is empty and resolves to the connection of the slot's session
\* otherwise.
C37_SessionOpsReadOnly ==
  /\ [][((\E op \in MetadataOps : Metadata(op)) \/ GenerateWebSocketUrl
          \/ \E r \in InFlight : r.op \in SessionOps) =>
          session' = session /\ live' = live /\ nextId' = nextId]_vars
  /\ [](\A r \in Recs : r.op \in SessionOps => r.creates = 0 /\ r.stops = 0)
  /\ [][\A op \in {"getSession", "updateBrowserStream"}, params \in MetadataParams :
          (/\ Metadata(op) /\ Called(MetadataBegin(NewTask(op), params))
           /\ session # NoSession /\ ~Nullish(params.sessionId)
           /\ Truthy(Coalesce(params.browserId, identifier))) =>
            \E x \in BagToSet(tasks') :
              /\ Added(x)
              /\ x.op = op /\ x.pc = "awaitMetadata" /\ x.sends = 1
              /\ x.req.sessionId = params.sessionId
              /\ x.req.sessionId # SlotSessionId]_vars
  /\ [][GenerateWebSocketUrl =>
          IF session = NoSession
          THEN /\ tasks' = tasks
               /\ last'.op = "generateWebSocketUrl" /\ last'.outcome = "rejected"
               /\ last'.value = NoActiveSession
          ELSE \E x \in BagToSet(tasks') :
                 Added(x) /\ x.op = "generateWebSocketUrl" /\ x.sid = session.sessionId]_vars
  /\ [][\A r \in InFlight :
          WebSocketUrlReturn(r) =>
            /\ last'.outcome = "resolved"
            /\ last'.value = WebSocketConnection(session.sessionId)]_vars

\* getSession({ sessionId }) on a client that holds session 1
C37_Witness ==
  /\ kind = "Browser"
  /\ last.op = "getSession" /\ last.pc = "done" /\ last.outcome = "resolved"
  /\ last.req # Undefined /\ last.req.sessionId = Str(<<"s-explicit">>)
  /\ last.creates = 0 /\ last.sends = 1
  /\ session # NoSession /\ session.sessionId = 1 /\ live = {1}

====
